---- MODULE Spec2Model ----
(***************************************************************************)
(* Incremental PR review reconciliation (repo-agent).                      *)
(*                                                                         *)
(* Text is modelled as a sequence of tokens.  A token is an atomic piece   *)
(* of a Python string: a newline (NL), a blank (SP), one of the literal    *)
(* HTML-comment tags of github_commenter.py, a commit sha, or a word of    *)
(* free text.  No token is a concatenation of other tokens, so substring   *)
(* tests on tags and list membership of shas are token tests.              *)
(***************************************************************************)
EXTENDS Integers, Sequences, FiniteSets, TLC

\* ------------------------------------------------------------------ bounds
MaxPatchLen == 4
MaxFiles == 2
MaxBlockLen == 4
MaxReviewed == 2

\* ------------------------------------------------------ program constants
simple_change_threshold == 20

SUMMARIZE_TAG == "<!-- auto-generated comment: pr summary -->"
RAW_SUMMARY_START_TAG == <<"<!-- auto-generated: raw summary start -->", "NL", "<!--">>
RAW_SUMMARY_END_TAG == <<"-->", "NL", "<!-- auto-generated: raw summary end -->">>
SHORT_SUMMARY_START_TAG == <<"<!-- auto-generated: short summary start -->", "NL", "<!--">>
SHORT_SUMMARY_END_TAG == <<"-->", "NL", "<!-- auto-generated: short summary end -->">>
COMMIT_ID_START_TAG == "<!-- commit_ids_reviewed_start -->"
COMMIT_ID_END_TAG == "<!-- commit_ids_reviewed_end -->"

skip_extensions == {"md", "txt", "rst", "png", "jpg", "jpeg", "gif"}

\* -------------------------------------------------------- text primitives
NL == "NL"
SP == "SP"

SeqsUpTo(S, n) == UNION {[1..k -> S] : k \in 0..n}

IsSpace(tok) == tok \in {NL, SP}

\* str.lstrip / str.rstrip / str.strip
RECURSIVE LStrip(_)
LStrip(t) == IF t # <<>> /\ IsSpace(Head(t)) THEN LStrip(Tail(t)) ELSE t

RECURSIVE RStrip(_)
RStrip(t) ==
  IF t # <<>> /\ IsSpace(t[Len(t)]) THEN RStrip(SubSeq(t, 1, Len(t) - 1)) ELSE t

Strip(t) == RStrip(LStrip(t))

\* index of the first occurrence of tok in t, 0 when absent
IndexOf(t, tok) ==
  IF \E i \in 1..Len(t) : t[i] = tok
  THEN CHOOSE i \in 1..Len(t) : t[i] = tok /\ \A j \in 1..(i - 1) : t[j] # tok
  ELSE 0

\* `tag in content`
Contains(t, tok) == IndexOf(t, tok) # 0

\* content.split(tok, 1)[1]
AfterFirst(t, tok) == SubSeq(t, IndexOf(t, tok) + 1, Len(t))

\* content.split(tok, 1)[0]
BeforeFirst(t, tok) ==
  IF Contains(t, tok) THEN SubSeq(t, 1, IndexOf(t, tok) - 1) ELSE t

\* str.splitlines
RECURSIVE SplitLines(_)
SplitLines(t) ==
  IF t = <<>> THEN <<>>
  ELSE IF ~Contains(t, NL) THEN <<t>>
  ELSE <<BeforeFirst(t, NL)>> \o SplitLines(AfterFirst(t, NL))

\* "\n".join(lines)
RECURSIVE JoinLines(_)
JoinLines(lines) ==
  IF lines = <<>> THEN <<>>
  ELSE IF Len(lines) = 1 THEN lines[1]
  ELSE lines[1] \o <<NL>> \o JoinLines(Tail(lines))

InSeq(x, s) == \E i \in 1..Len(s) : s[i] = x

\* ---------------------------------------------- marker-tagged comment store
get_content_within_tags(content, start_tag, end_tag) ==
  IF ~Contains(content, start_tag) \/ ~Contains(content, end_tag) THEN <<>>
  ELSE Strip(BeforeFirst(AfterFirst(content, start_tag), end_tag))

get_reviewed_commit_ids_block(summary) ==
  get_content_within_tags(summary, COMMIT_ID_START_TAG, COMMIT_ID_END_TAG)

get_reviewed_commit_ids(block) ==
  LET lines == SplitLines(block)
      stripped == [i \in 1..Len(lines) |-> Strip(lines[i])]
  IN SelectSeq(stripped, LAMBDA l : l # <<>>)

add_reviewed_commit_id_noappend(existing_block, commit_id) ==
  LET ids == IF existing_block # <<>> THEN get_reviewed_commit_ids(existing_block) ELSE <<>>
  IN <<COMMIT_ID_START_TAG, NL>> \o JoinLines(ids) \o <<NL, COMMIT_ID_END_TAG>>

add_reviewed_commit_id_dup(existing_block, commit_id) ==
  LET ids == IF existing_block # <<>> THEN get_reviewed_commit_ids(existing_block) ELSE <<>>
      ids2 == IF commit_id # <<>> THEN Append(ids, commit_id) ELSE ids
  IN <<COMMIT_ID_START_TAG, NL>> \o JoinLines(ids2) \o <<NL, COMMIT_ID_END_TAG>>

add_reviewed_commit_id(existing_block, commit_id) ==
  LET ids == IF existing_block # <<>> THEN get_reviewed_commit_ids(existing_block) ELSE <<>>
      ids2 == IF commit_id # <<>> /\ ~InSeq(commit_id, ids) THEN Append(ids, commit_id) ELSE ids
  IN <<COMMIT_ID_START_TAG, NL>> \o JoinLines(ids2) \o <<NL, COMMIT_ID_END_TAG>>

RECURSIVE HighestLoop(_, _, _)
HighestLoop(all_commits, reviewed, highest) ==
  IF all_commits = <<>> THEN highest
  ELSE HighestLoop(Tail(all_commits), reviewed,
                   IF InSeq(Head(all_commits), reviewed) THEN Head(all_commits) ELSE highest)

get_highest_reviewed_commit_id_first(all_commits, reviewed) ==
  IF \E i \in 1..Len(all_commits) : InSeq(all_commits[i], reviewed)
  THEN all_commits[CHOOSE i \in 1..Len(all_commits) :
                     /\ InSeq(all_commits[i], reviewed)
                     /\ \A j \in 1..(i - 1) : ~InSeq(all_commits[j], reviewed)]
  ELSE <<>>

get_highest_reviewed_commit_id_lastappended(all_commits, reviewed) ==
  IF reviewed = <<>> THEN <<>> ELSE reviewed[Len(reviewed)]

get_highest_reviewed_commit_id(all_commits, reviewed) ==
  HighestLoop(all_commits, reviewed, <<>>)

\* notes = "\n".join(f"- {n}" ...) if release_notes else "- (none)"
RenderNotes(release_notes) ==
  IF release_notes = <<>> THEN <<"- (none)">>
  ELSE JoinLines([i \in 1..Len(release_notes) |-> <<"-", SP>> \o release_notes[i]])

_build_summary_comment(summary, release_notes, raw_summary, short_summary, commit_id_block) ==
  <<SUMMARIZE_TAG, NL, "### Summary", NL, NL>> \o summary \o <<NL, NL>>
  \o <<"### Release Notes", NL>> \o RenderNotes(release_notes) \o <<NL, NL>>
  \o RAW_SUMMARY_START_TAG \o <<NL>> \o raw_summary \o <<NL>> \o RAW_SUMMARY_END_TAG \o <<NL>>
  \o SHORT_SUMMARY_START_TAG \o <<NL>> \o short_summary \o <<NL>> \o SHORT_SUMMARY_END_TAG
  \o <<NL, NL>> \o commit_id_block \o <<NL>>

\* ------------------------------------------------------------ diff annotator
\* A patch line is known by the prefix the annotator tests (line.startswith):
\* "@@" a hunk header, "+" an added line, "-" a removed line, " " a context
\* line, "\\" the marker line "\ No newline at end of file" that GitHub puts
\* into the patch after a last line without a newline.  new_start is the
\* number re.search(r"\+(\d+)", line) finds in a header; NoMatch when the
\* header holds no "+<digits>".
NoMatch == -1
NoNumber == -1

HunkStarts == {1, 7}

HeaderLine(c) == [prefix |-> "@@", new_start |-> c]
BodyLine(p) == [prefix |-> p, new_start |-> NoMatch]

PatchLines ==
  {HeaderLine(c) : c \in HunkStarts \cup {NoMatch}}
  \cup {BodyLine(p) : p \in {"+", "-", " ", "\\"}}

\* one iteration of the loop of _extract_numbered_hunks: the entry appended to
\* numbered_lines and the new value of new_line
NumberLine(line, cur) ==
  IF line.prefix = "@@"
  THEN [entry |-> [mark |-> "@@", num |-> NoNumber],
        new_line |-> IF line.new_start # NoMatch THEN line.new_start ELSE 0]
  ELSE IF line.prefix = "+"
  THEN [entry |-> [mark |-> "+", num |-> cur], new_line |-> cur + 1]
  ELSE IF line.prefix = "-"
  THEN [entry |-> [mark |-> "-", num |-> NoNumber], new_line |-> cur]
  ELSE [entry |-> [mark |-> " ", num |-> cur], new_line |-> cur + 1]

\* ------------------------------------------------------- change classifier
\* A filename is the list of its "."-separated parts (filename.split("."));
\* <<>> is a missing or empty filename.
Lower(s) == CASE s = "MD" -> "md" [] s = "PY" -> "py" [] OTHER -> s

Last(s) == s[Len(s)]

RECURSIVE TotalChanges(_)
TotalChanges(files) ==
  IF files = <<>> THEN 0
  ELSE Head(files).additions + Head(files).deletions + TotalChanges(Tail(files))

Extensions(files) ==
  {Lower(Last(files[i].filename)) : i \in {j \in 1..Len(files) : files[j].filename # <<>>}}

SimpleReason == "simple changes (<= 20 lines)"
DocsReason == "documentation-only changes"

_should_skip_review_strict(files, rsc) ==
  IF ~rsc /\ TotalChanges(files) < simple_change_threshold
  THEN [skipped |-> TRUE, reason |-> SimpleReason]
  ELSE IF Extensions(files) # {} /\ Extensions(files) \subseteq skip_extensions
  THEN [skipped |-> TRUE, reason |-> DocsReason]
  ELSE [skipped |-> FALSE, reason |-> ""]

_should_skip_review_docsfirst(files, rsc) ==
  IF Extensions(files) # {} /\ Extensions(files) \subseteq skip_extensions
  THEN [skipped |-> TRUE, reason |-> DocsReason]
  ELSE IF ~rsc /\ TotalChanges(files) <= simple_change_threshold
  THEN [skipped |-> TRUE, reason |-> SimpleReason]
  ELSE [skipped |-> FALSE, reason |-> ""]

_should_skip_review(files, rsc) ==
  IF ~rsc /\ TotalChanges(files) <= simple_change_threshold
  THEN [skipped |-> TRUE, reason |-> SimpleReason]
  ELSE IF Extensions(files) # {} /\ Extensions(files) \subseteq skip_extensions
  THEN [skipped |-> TRUE, reason |-> DocsReason]
  ELSE [skipped |-> FALSE, reason |-> ""]

\* ------------------------------------------------------------------- state
\* Function-level runs: fn names the function under evaluation, fn_pc its
\* position; every other variable below is an argument, a local or a result.
VARIABLES
  fn, fn_pc,
  review_simple_changes,
  patch, line_idx, new_line, numbered_lines,
  files_arg, skip_result,
  existing_block, commit_id, commit_id_block, summary_body, second_block,
  all_commits_arg, reviewed_arg, highest,
  triages_arg, pipeline_out,
  llm_response, llm_out,
  comments_payload, to_delete, fallback_idx, api_log, pending_review,
  body_arg, messages_arg,
  events, handled,
  comment_arg, chain_acc, current_comment, top_level_comment, chain_text_out,
  \* the pull request on GitHub
  commits, description, issue_comments, pr_review_comments,
  \* the service instance and the reconciliation cycles it runs
  deployment, github_token, review_comments_buffer, cycle,
  \* bounded counters of the environment
  pushes, cycles_run

fnVars == <<fn, fn_pc, patch, line_idx, new_line, numbered_lines,
            files_arg, skip_result,
            existing_block, commit_id, commit_id_block, summary_body, second_block,
            all_commits_arg, reviewed_arg, highest,
            triages_arg, pipeline_out,
            llm_response, llm_out,
            comments_payload, to_delete, fallback_idx, api_log, pending_review,
            body_arg, messages_arg, events, handled,
            comment_arg, chain_acc, current_comment, top_level_comment, chain_text_out>>

annotateVars == <<patch, line_idx, new_line, numbered_lines>>
skipVars == <<files_arg, skip_result>>
ledgerVars == <<existing_block, commit_id, commit_id_block, summary_body, second_block>>
highestVars == <<all_commits_arg, reviewed_arg, highest>>
pipelineVars == <<triages_arg, pipeline_out>>
llmVars == <<llm_response, llm_out>>
submitVars == <<comments_payload, to_delete, fallback_idx, api_log, pending_review>>
updateVars == <<body_arg, messages_arg>>
replyVars == <<events, handled>>
chainVars == <<comment_arg, chain_acc, current_comment, top_level_comment, chain_text_out>>
otherFnVars == <<pipelineVars, llmVars, submitVars, updateVars, replyVars, chainVars>>

NoResult == [skipped |-> FALSE, reason |-> "not run"]

AnnotateIdle ==
  patch = <<>> /\ line_idx = 1 /\ new_line = 0 /\ numbered_lines = <<>>
SkipIdle == files_arg = <<>> /\ skip_result = NoResult
LedgerIdle ==
  /\ existing_block = <<>> /\ commit_id = <<>> /\ commit_id_block = <<>>
  /\ summary_body = <<>> /\ second_block = <<>>
HighestIdle == all_commits_arg = <<>> /\ reviewed_arg = <<>> /\ highest = <<>>
NoPipelineOut == [returned |-> FALSE]
PipelineIdle == triages_arg = <<>> /\ pipeline_out = NoPipelineOut
NoResponse == [kind |-> "none"]
NoLlmOut == [returned |-> FALSE, raised |-> FALSE]
LlmIdle == llm_response = NoResponse /\ llm_out = NoLlmOut
SubmitIdle ==
  /\ comments_payload = <<>> /\ to_delete = <<>> /\ fallback_idx = 0
  /\ api_log = <<>> /\ pending_review = FALSE
UpdateIdle == body_arg = <<>> /\ messages_arg = <<>>
ReplyIdle == events = {} /\ handled = {}
NoComment == [id |-> 0]
ChainIdle ==
  /\ comment_arg = NoComment /\ chain_acc = <<>> /\ current_comment = NoComment
  /\ top_level_comment = NoComment /\ chain_text_out = <<>>
OtherFnIdle ==
  PipelineIdle /\ LlmIdle /\ SubmitIdle /\ UpdateIdle /\ ReplyIdle /\ ChainIdle
FnIdle ==
  /\ fn = "none" /\ fn_pc = "none"
  /\ AnnotateIdle /\ SkipIdle /\ LedgerIdle /\ HighestIdle /\ OtherFnIdle

prVars == <<commits, description, issue_comments, pr_review_comments>>
svcVars == <<deployment, github_token, review_comments_buffer, cycle>>
envCounters == <<pushes, cycles_run>>
cycleVars == <<prVars, svcVars, envCounters>>

Workers == {1, 2}

NoSha == <<>>

EmptyResult ==
  [summary |-> <<>>, release_notes |-> <<>>, raw_summary |-> <<>>, short_summary |-> <<>>,
   review_comments |-> <<>>, reviewed_sha |-> NoSha, skipped |-> FALSE, skip_reason |-> ""]

\* the locals of one post_review call, before it starts
IdleCycle ==
  [pc |-> "idle", head_sha |-> NoSha, base_sha |-> NoSha, reviewed_ids |-> <<>>,
   all_commits |-> <<>>, compared |-> <<>>, files |-> <<>>,
   result |-> EmptyResult, commit_id |-> NoSha, summary_body |-> <<>>, listed_id |-> 0,
   payload |-> <<>>,
   llm_calls |-> 0, writes |-> 0, api_calls |-> 0, call_failed |-> FALSE]

\* What is left of a call's locals once it has returned (pc "done") or raised.
\* A script awaits post_review: it gets the ReviewResult or the exception (the
\* counts of the calls made are kept with it).  On the server the thread's
\* review_pr_background drops the result, logs any exception, and ends.
Finished(c, pc) ==
  IF deployment = "server" THEN [IdleCycle EXCEPT !.pc = "done"]
  ELSE [IdleCycle EXCEPT !.pc = pc,
                         !.result = IF pc = "raised" THEN EmptyResult ELSE c.result,
                         !.llm_calls = c.llm_calls, !.writes = c.writes,
                         !.api_calls = c.api_calls, !.call_failed = c.call_failed]

CycleIdle ==
  /\ commits = <<>> /\ description = <<>> /\ issue_comments = <<>>
  /\ pr_review_comments = <<>>
  /\ deployment = "none" /\ github_token = FALSE /\ review_comments_buffer = <<>>
  /\ cycle = [w \in Workers |-> IdleCycle]
  /\ pushes = 0 /\ cycles_run = 0

\* ------------------------------------------------ inputs of function runs
Shas == {"c0", "c1", "c2", "c3", "c4"}
Sha(c) == <<c>>

\* Text an LLM call returns.  The literal tags of github_commenter.py do not
\* occur in it (spec section 6: tag strings never appear in text the system did
\* not put there).
LLMTexts == {<<>>, <<"w">>, <<"w", NL, "w", SP>>}

FileNames == {<<"README", "md">>, <<"NOTES", "MD">>, <<"app", "py">>, <<>>}
FileRecords ==
  [filename : FileNames, additions : {0, 10, 11}, deletions : {0, 10}]

BlockTokens == {"c1", "c2", NL, SP}

NoDup(s) == \A i, j \in 1..Len(s) : i # j => s[i] # s[j]

\* ------------------------------------- _extract_numbered_hunks, line by line
InitAnnotate ==
  /\ fn = "_extract_numbered_hunks" /\ fn_pc = "loop"
  /\ patch \in SeqsUpTo(PatchLines, MaxPatchLen)
  /\ line_idx = 1 /\ new_line = 0 /\ numbered_lines = <<>>
  /\ review_simple_changes = FALSE
  /\ SkipIdle /\ LedgerIdle /\ HighestIdle /\ CycleIdle /\ OtherFnIdle

ExtractLine ==
  /\ fn = "_extract_numbered_hunks" /\ fn_pc = "loop"
  /\ line_idx <= Len(patch)
  /\ LET r == NumberLine(patch[line_idx], new_line)
     IN /\ numbered_lines' = Append(numbered_lines, r.entry)
        /\ new_line' = r.new_line
  /\ line_idx' = line_idx + 1
  /\ UNCHANGED <<cycleVars, otherFnVars>>
  /\ UNCHANGED <<fn, fn_pc, patch, review_simple_changes>>
  /\ UNCHANGED <<skipVars, ledgerVars, highestVars>>

ExtractReturn ==
  /\ fn = "_extract_numbered_hunks" /\ fn_pc = "loop"
  /\ line_idx > Len(patch)
  /\ fn_pc' = "return"
  /\ UNCHANGED <<cycleVars, otherFnVars>>
  /\ UNCHANGED <<fn, review_simple_changes>>
  /\ UNCHANGED <<annotateVars, skipVars, ledgerVars, highestVars>>

\* _run_file_review calls the heavy model unless numbered_hunks.strip() is
\* empty; every entry renders to a non-blank line, so the joined text is blank
\* exactly when there is no entry.
FileReviewCallsLLM == numbered_lines # <<>>

\* --------------------------------------------------- _should_skip_review
InitSkip ==
  /\ fn = "_should_skip_review" /\ fn_pc = "call"
  /\ files_arg \in SeqsUpTo(FileRecords, MaxFiles)
  /\ review_simple_changes \in BOOLEAN
  /\ skip_result = NoResult
  /\ AnnotateIdle /\ LedgerIdle /\ HighestIdle /\ CycleIdle /\ OtherFnIdle

ShouldSkipReview ==
  /\ fn = "_should_skip_review" /\ fn_pc = "call"
  /\ skip_result' = _should_skip_review(files_arg, review_simple_changes)
  /\ fn_pc' = "return"
  /\ UNCHANGED <<cycleVars, otherFnVars>>
  /\ UNCHANGED <<fn, files_arg, review_simple_changes>>
  /\ UNCHANGED <<annotateVars, ledgerVars, highestVars>>

\* ------------------- add_reviewed_commit_id, twice around the summary comment
InitLedger ==
  /\ fn = "add_reviewed_commit_id" /\ fn_pc = "call"
  /\ existing_block \in {Strip(b) : b \in SeqsUpTo(BlockTokens, MaxBlockLen)}
  /\ commit_id \in {Sha(c) : c \in {"c1", "c2", "c3"}} \cup {<<>>}
  /\ commit_id_block = <<>> /\ summary_body = <<>> /\ second_block = <<>>
  /\ review_simple_changes = FALSE
  /\ AnnotateIdle /\ SkipIdle /\ HighestIdle /\ CycleIdle /\ OtherFnIdle

AddReviewedCommitId ==
  /\ fn = "add_reviewed_commit_id" /\ fn_pc = "call"
  /\ commit_id_block' = add_reviewed_commit_id(existing_block, commit_id)
  /\ fn_pc' = "built"
  /\ UNCHANGED <<cycleVars, otherFnVars>>
  /\ UNCHANGED <<fn, review_simple_changes, existing_block, commit_id, summary_body, second_block>>
  /\ UNCHANGED <<annotateVars, skipVars, highestVars>>

BuildSummaryComment ==
  /\ fn = "add_reviewed_commit_id" /\ fn_pc = "built"
  /\ \E summary \in LLMTexts, short \in LLMTexts, notes \in {<<>>, <<<<"w">>>>} :
       summary_body' = _build_summary_comment(summary, notes, <<"w">>, short, commit_id_block)
  /\ fn_pc' = "posted"
  /\ UNCHANGED <<cycleVars, otherFnVars>>
  /\ UNCHANGED <<fn, review_simple_changes, existing_block, commit_id, commit_id_block, second_block>>
  /\ UNCHANGED <<annotateVars, skipVars, highestVars>>

AddAgainFromComment ==
  /\ fn = "add_reviewed_commit_id" /\ fn_pc = "posted"
  /\ second_block' =
       add_reviewed_commit_id(get_reviewed_commit_ids_block(summary_body), commit_id)
  /\ fn_pc' = "return"
  /\ UNCHANGED <<cycleVars, otherFnVars>>
  /\ UNCHANGED <<fn, review_simple_changes, existing_block, commit_id, commit_id_block, summary_body>>
  /\ UNCHANGED <<annotateVars, skipVars, highestVars>>

\* ------------------------------------------ get_highest_reviewed_commit_id
InitHighest ==
  /\ fn = "get_highest_reviewed_commit_id" /\ fn_pc = "call"
  /\ all_commits_arg \in {s \in SeqsUpTo({Sha(c) : c \in Shas}, Cardinality(Shas)) : NoDup(s)}
  /\ reviewed_arg \in SeqsUpTo({Sha(c) : c \in Shas}, MaxReviewed)
  /\ highest = <<>>
  /\ review_simple_changes = FALSE
  /\ AnnotateIdle /\ SkipIdle /\ LedgerIdle /\ CycleIdle /\ OtherFnIdle

GetHighestReviewedCommitId ==
  /\ fn = "get_highest_reviewed_commit_id" /\ fn_pc = "call"
  /\ highest' = get_highest_reviewed_commit_id(all_commits_arg, reviewed_arg)
  /\ fn_pc' = "return"
  /\ UNCHANGED <<cycleVars, otherFnVars>>
  /\ UNCHANGED <<fn, review_simple_changes, all_commits_arg, reviewed_arg>>
  /\ UNCHANGED <<annotateVars, skipVars, ledgerVars>>

\* ============================================== reconciliation cycle model
\* One pull request on GitHub and the post_review calls (cycles) that a
\* service instance runs for it.  Each GitHub API call is one action; a call
\* may fail.  The calls of the LLM touch no shared state and are one action.
MaxPushes == 1
MaxCycles == 3

IGNORE_KEYWORD == "@coderabbitai: ignore"
DESCRIPTION_START_TAG == "<!-- auto-generated release notes start -->"
DESCRIPTION_END_TAG == "<!-- auto-generated release notes end -->"
COMMENT_TAG == "<!-- auto-generated comment: pr review -->"
update_description_enabled == TRUE
max_files == 0

BaseSha == Sha("base")
CommitPool == {"c1", "c2", "c3"}

F_doc == [filename |-> <<"README", "md">>, additions |-> 11, deletions |-> 10, patch |-> TRUE]
F_small == [filename |-> <<"app", "py">>, additions |-> 10, deletions |-> 0, patch |-> TRUE]
F_big == [filename |-> <<"app", "py">>, additions |-> 11, deletions |-> 10, patch |-> TRUE]

\* what the compare API can return as "files"
CompareFiles == {<<>>, <<F_doc>>, <<F_small>>, <<F_big, F_doc>>}

\* compare of a commit with itself has no files
DiffFiles(base, head) == IF base = head THEN {<<>>} ELSE CompareFiles

\* ------------------------------------------------------- issue comments
\* index of the first comment whose body contains tag, 0 when none
FirstTagged(comments, tag) ==
  IF \E i \in 1..Len(comments) : Contains(comments[i].body, tag)
  THEN CHOOSE i \in 1..Len(comments) :
         /\ Contains(comments[i].body, tag)
         /\ \A j \in 1..(i - 1) : ~Contains(comments[j].body, tag)
  ELSE 0

\* body of the comment find_issue_comment_with_tag returns, "" when None
ExistingBody(comments, tag) ==
  IF FirstTagged(comments, tag) = 0 THEN <<>> ELSE comments[FirstTagged(comments, tag)].body

create_issue_comment(comments, body) ==
  Append(comments, [id |-> Len(comments) + 1, author |-> "bot", body |-> body])

update_issue_comment(comments, comment_id, body) ==
  [i \in 1..Len(comments) |->
     IF comments[i].id = comment_id THEN [comments[i] EXCEPT !.body = body] ELSE comments[i]]

\* the write of upsert_issue_comment_by_tag, given the id its listing found
UpsertAlwaysCreate(comments, listed_id, body) == create_issue_comment(comments, body)

\* a write that looks for a tagged comment once more before it creates one
UpsertWriteRechecked(comments, listed_id, body) ==
  IF listed_id # 0 THEN update_issue_comment(comments, listed_id, body)
  ELSE IF FirstTagged(comments, SUMMARIZE_TAG) # 0
  THEN update_issue_comment(comments, comments[FirstTagged(comments, SUMMARIZE_TAG)].id, body)
  ELSE create_issue_comment(comments, body)

UpsertWriteResult(comments, listed_id, body) ==
  IF listed_id # 0 THEN update_issue_comment(comments, listed_id, body)
  ELSE create_issue_comment(comments, body)

remove_content_within_tags(content, start_tag, end_tag) ==
  IF ~Contains(content, start_tag) \/ ~Contains(content, end_tag) THEN content
  ELSE Strip(RStrip(BeforeFirst(content, start_tag)) \o <<NL, NL>>
             \o LStrip(AfterFirst(content, end_tag)))

get_description(d) == remove_content_within_tags(d, DESCRIPTION_START_TAG, DESCRIPTION_END_TAG)

\* the new body keeps the old one whole and appends a region
NewDescriptionAppended(body, message) ==
  Strip(body \o <<NL, NL, DESCRIPTION_START_TAG, NL>>
        \o remove_content_within_tags(message, DESCRIPTION_START_TAG, DESCRIPTION_END_TAG)
        \o <<NL, DESCRIPTION_END_TAG>>)

NewDescription(body, message) ==
  Strip(get_description(body) \o <<NL, NL, DESCRIPTION_START_TAG, NL>>
        \o remove_content_within_tags(message, DESCRIPTION_START_TAG, DESCRIPTION_END_TAG)
        \o <<NL, DESCRIPTION_END_TAG>>)

\* --------------------------------------------------- the prompt pipeline
HasPathAndPatch(f) == f.filename # <<>> /\ f.patch

\* ext = path.split(".")[-1].lower() if "." in path else ""
FileExt(filename) == IF Len(filename) > 1 THEN Lower(Last(filename)) ELSE ""

\* the file-summary loop of review_pr: (path, triage) of every file summarised
RECURSIVE SummaryLoop(_, _, _, _)
\* (triage[i] is the verdict the light model gives when asked about files[i])
SummaryLoop(files, triage, limit, acc) ==
  IF files = <<>> THEN acc
  ELSE IF ~HasPathAndPatch(Head(files)) \/ FileExt(Head(files).filename) \in skip_extensions
  THEN SummaryLoop(Tail(files), Tail(triage), limit, acc)
  ELSE LET acc2 == Append(acc, [path |-> Head(files).filename, triage |-> Head(triage)])
       IN IF limit > 0 /\ Len(acc2) >= limit THEN acc2
          ELSE SummaryLoop(Tail(files), Tail(triage), limit, acc2)

\* next((t for p, _, t in summaries if p == path), "NEEDS_REVIEW")
TriageOf(summaries, path) ==
  IF \E i \in 1..Len(summaries) : summaries[i].path = path
  THEN summaries[CHOOSE i \in 1..Len(summaries) :
                   /\ summaries[i].path = path
                   /\ \A j \in 1..(i - 1) : summaries[j].path # path].triage
  ELSE "NEEDS_REVIEW"

\* the files the second loop of review_pr hands to _run_file_review
LineReviewedNoSimpleTest(files, summaries, rsc, simple_reason) ==
  SelectSeq(files, LAMBDA f :
    /\ HasPathAndPatch(f)
    /\ ~(~rsc /\ TriageOf(summaries, f.filename) = "APPROVED"))

LineReviewedNoTriageTest(files, summaries, rsc, simple_reason) ==
  SelectSeq(files, LAMBDA f :
    /\ HasPathAndPatch(f)
    /\ ~(~rsc /\ simple_reason # ""))

LineReviewed(files, summaries, rsc, simple_reason) ==
  SelectSeq(files, LAMBDA f :
    /\ HasPathAndPatch(f)
    /\ ~(~rsc /\ simple_reason # "")
    /\ ~(~rsc /\ TriageOf(summaries, f.filename) = "APPROVED"))

PathText(filename) ==
  IF Len(filename) > 1 THEN <<filename[1], ".", filename[2]>> ELSE filename

RawSummary(summaries) ==
  JoinLines([i \in 1..Len(summaries) |-> PathText(summaries[i].path) \o <<":", SP, "w">>])

\* review_pr from the classification on: triage, notes and found are what the
\* LLM calls return (the verdict of the light model, the release notes, and
\* whether a line review reports an issue)
RunPipeline(files, rsc, head_sha, triage, notes, found) ==
  LET sk == _should_skip_review(files, rsc)
      skip_reviews == sk.skipped /\ sk.reason = DocsReason
      simple_reason == IF sk.skipped THEN sk.reason ELSE ""
      summaries == SummaryLoop(files, triage, max_files, <<>>)
      reviewed == IF skip_reviews THEN <<>>
                  ELSE LineReviewed(files, summaries, rsc, simple_reason)
      comments == IF found
                  THEN [i \in 1..Len(reviewed) |->
                          [path |-> reviewed[i].filename, start_line |-> 1,
                           end_line |-> 1, comment |-> "issue"]]
                  ELSE <<>>
  IN [result |-> [summary |-> <<"w">>, release_notes |-> notes,
                  raw_summary |-> RawSummary(summaries), short_summary |-> <<"w">>,
                  review_comments |-> comments, reviewed_sha |-> head_sha,
                  skipped |-> FALSE, skip_reason |-> ""],
      llm_calls |-> Len(summaries) + 4 + Len(reviewed),
      summaries |-> summaries,
      line_reviewed |-> [i \in 1..Len(reviewed) |-> reviewed[i].filename]]

SkippedResult(sha, reason) ==
  [EmptyResult EXCEPT !.reviewed_sha = sha, !.skipped = TRUE, !.skip_reason = reason]

\* ------------------------- review_pr's two file loops, as a function run
PipelineNames == {<<"app", "py">>, <<"lib", "py">>, <<"README", "md">>}
PipelineFiles ==
  [filename : PipelineNames, additions : {5, 16}, deletions : {5}, patch : BOOLEAN]
Verdicts == {"NEEDS_REVIEW", "APPROVED"}

InitPipeline ==
  /\ fn = "review_pr" /\ fn_pc = "call"
  /\ files_arg \in SeqsUpTo(PipelineFiles, MaxFiles) \ {<<>>}
  /\ NoDup([i \in 1..Len(files_arg) |-> files_arg[i].filename])
  /\ review_simple_changes \in BOOLEAN
  /\ triages_arg \in [1..Len(files_arg) -> Verdicts]
  /\ pipeline_out = NoPipelineOut
  /\ skip_result = NoResult
  /\ AnnotateIdle /\ LedgerIdle /\ HighestIdle /\ CycleIdle /\ LlmIdle /\ SubmitIdle
  /\ UpdateIdle /\ ReplyIdle /\ ChainIdle

\* every line review that runs reports one issue
ReviewPrLoops ==
  /\ fn = "review_pr" /\ fn_pc = "call"
  /\ LET r == RunPipeline(files_arg, review_simple_changes, Sha("c1"), triages_arg,
                          <<>>, TRUE)
     IN pipeline_out' = [returned |-> TRUE, review_comments |-> r.result.review_comments,
                         summaries |-> r.summaries, line_reviewed |-> r.line_reviewed,
                         llm_calls |-> r.llm_calls]
  /\ fn_pc' = "return"
  /\ UNCHANGED cycleVars
  /\ UNCHANGED <<fn, files_arg, review_simple_changes, triages_arg, skip_result>>
  /\ UNCHANGED <<annotateVars, ledgerVars, highestVars, llmVars, submitVars, updateVars,
                 replyVars, chainVars>>

\* --------------------------------- the steps that read an LLM's answer
\* What an LLM call can return, by what _parse_json makes of it: text with no
\* JSON in it, text whose braces do not parse, or text holding a JSON object,
\* array or other value.  An object is given by the keys it has ("absent" for
\* a missing key), an array by its items.
Absent == "absent"
JsonObjects ==
  [kind : {"object"}, summary : {Absent, "s"}, triage : {Absent} \cup Verdicts,
   release_notes : {Absent, "notes"}]
JsonArrays == [kind : {"array"}, items : SeqsUpTo({"object", "other"}, 2)]
LLMResponses ==
  {[kind |-> "text"], [kind |-> "malformed"], [kind |-> "scalar"]}
    \cup JsonObjects \cup JsonArrays

\* re.search for {...} or [...], json.loads; the default on any exception
_parse_json(response, default) ==
  IF response.kind \in {"text", "malformed"} THEN default ELSE response

Returned(value) == [returned |-> TRUE, raised |-> FALSE, value |-> value]
Raised(exception) == [returned |-> FALSE, raised |-> TRUE, exception |-> exception]

\* the default of _run_file_summary: content[:300] and NEEDS_REVIEW
SummaryDefault ==
  [kind |-> "object", summary |-> "content[:300]", triage |-> "NEEDS_REVIEW",
   release_notes |-> Absent]

\* data.get(...) is an AttributeError when data is not a dict
_run_file_summary(response) ==
  LET data == _parse_json(response, SummaryDefault)
  IN IF data.kind # "object" THEN Raised("AttributeError")
     ELSE Returned([summary |-> IF data.summary = Absent THEN "" ELSE data.summary,
                    triage |-> IF data.triage = Absent THEN "NEEDS_REVIEW"
                               ELSE data.triage])

ReleaseDefault ==
  [kind |-> "object", summary |-> Absent, triage |-> Absent, release_notes |-> "empty"]

\* the release-notes step of _run_summary
_run_summary(response) ==
  LET data == _parse_json(response, ReleaseDefault)
  IN Returned(IF data.kind = "object" /\ data.release_notes = "notes"
              THEN <<"note">> ELSE <<>>)

ReviewDefault == [kind |-> "array", items |-> <<>>]

\* the answer of _run_file_review: the dict items of a list, else nothing
_run_file_review(response) ==
  LET data == _parse_json(response, ReviewDefault)
  IN Returned(IF data.kind = "array"
              THEN SelectSeq(data.items, LAMBDA item : item = "object")
              ELSE <<>>)

LlmSteps == {"_run_file_summary", "_run_summary", "_run_file_review"}

InitLlmStep ==
  /\ fn \in LlmSteps /\ fn_pc = "call"
  /\ llm_response \in LLMResponses
  /\ llm_out = NoLlmOut
  /\ review_simple_changes = FALSE
  /\ AnnotateIdle /\ SkipIdle /\ LedgerIdle /\ HighestIdle /\ CycleIdle /\ PipelineIdle
  /\ SubmitIdle /\ UpdateIdle /\ ReplyIdle /\ ChainIdle

ReadLlmAnswer ==
  /\ fn \in LlmSteps /\ fn_pc = "call"
  /\ llm_out' = CASE fn = "_run_file_summary" -> _run_file_summary(llm_response)
                  [] fn = "_run_summary" -> _run_summary(llm_response)
                  [] fn = "_run_file_review" -> _run_file_review(llm_response)
  /\ fn_pc' = IF llm_out'.raised THEN "raise" ELSE "return"
  /\ UNCHANGED cycleVars
  /\ UNCHANGED <<fn, llm_response, review_simple_changes>>
  /\ UNCHANGED <<annotateVars, skipVars, ledgerVars, highestVars, pipelineVars, submitVars,
                 updateVars, replyVars, chainVars>>

\* ------------------------------------------------------------ environment
Head_(cs) == cs[Len(cs)]

\* a developer pushes a commit onto the PR branch
Push ==
  /\ pushes < MaxPushes
  /\ \E c \in CommitPool :
       /\ ~InSeq(Sha(c), commits)
       /\ commits' = Append(commits, Sha(c))
  /\ pushes' = pushes + 1
  /\ UNCHANGED <<description, issue_comments, pr_review_comments, svcVars, cycles_run>>
  /\ UNCHANGED <<fnVars, review_simple_changes>>

\* a developer force-pushes the branch back to its previous commit
ForcePush ==
  /\ pushes < MaxPushes
  /\ Len(commits) > 1
  /\ commits' = SubSeq(commits, 1, Len(commits) - 1)
  /\ pushes' = pushes + 1
  /\ UNCHANGED <<description, issue_comments, pr_review_comments, svcVars, cycles_run>>
  /\ UNCHANGED <<fnVars, review_simple_changes>>

\* ------------------------------------------------------------ cycle steps
\* llm_calls, writes and api_calls count the calls one post_review makes, and
\* call_failed tells whether one of its API calls failed, for
\* the caller that awaits it; a server thread has no such caller
Counted(rec) ==
  IF deployment = "server"
  THEN [rec EXCEPT !.llm_calls = 0, !.writes = 0, !.api_calls = 0, !.call_failed = FALSE]
  ELSE rec

SetCycle(w, rec) == cycle' = [cycle EXCEPT ![w] = Counted(rec)]

Running(w) == cycle[w].pc \notin {"idle", "done", "raised"}

Leave(c, pc) == IF pc = "done" THEN Finished(c, "done") ELSE [c EXCEPT !.pc = pc]

\* post_review after review_pr returned: a skipped result is returned as it
\* is, and so is any result when there is no token
AfterReviewPrNoSkipTest(result) ==
  IF ~github_token THEN "done" ELSE "post_get_pr_details"

AfterReviewPrNoTokenTest(result) ==
  IF result.skipped THEN "done" ELSE "post_get_pr_details"

AfterReviewPr(result) ==
  IF result.skipped THEN "done"
  ELSE IF ~github_token THEN "done"
  ELSE "post_get_pr_details"

\* review_pr returns result to post_review; its locals are gone
ReturnResult(c, result) ==
  Leave([c EXCEPT !.result = result, !.base_sha = NoSha, !.reviewed_ids = <<>>,
                  !.all_commits = <<>>, !.files = <<>>, !.compared = <<>>,
                  !.head_sha = NoSha],
        AfterReviewPr(result))

\* a webhook delivery starts post_review on a thread of the server (threads
\* are numbered in the order they start)
StartCycle(w) ==
  /\ cycle[w].pc = "idle"
  /\ \A v \in Workers : v < w => cycle[v].pc # "idle"
  /\ SetCycle(w, [IdleCycle EXCEPT !.pc = "get_pr_details"])
  /\ cycles_run' = cycles_run + 1
  /\ UNCHANGED <<prVars, deployment, github_token, review_comments_buffer, pushes>>
  /\ UNCHANGED <<fnVars, review_simple_changes>>

\* the same service instance runs post_review again after the last call ended
NextCycle(w) ==
  /\ cycle[w].pc \in {"done", "raised"}
  /\ cycles_run < MaxCycles
  /\ SetCycle(w, [IdleCycle EXCEPT !.pc = "get_pr_details"])
  /\ cycles_run' = cycles_run + 1
  /\ UNCHANGED <<prVars, deployment, github_token, review_comments_buffer, pushes>>
  /\ UNCHANGED <<fnVars, review_simple_changes>>

\* a new process constructs PRReviewService (its own configuration, an empty
\* buffer) and runs post_review, as scripts/run_pr_review.py does
NewServiceCycle(w) ==
  /\ cycle[w].pc \in {"done", "raised"}
  /\ \A v \in Workers : ~Running(v)
  /\ cycles_run < MaxCycles
  /\ github_token' \in BOOLEAN
  /\ review_simple_changes' \in BOOLEAN
  /\ review_comments_buffer' = <<>>
  /\ SetCycle(w, [IdleCycle EXCEPT !.pc = "get_pr_details"])
  /\ cycles_run' = cycles_run + 1
  /\ UNCHANGED <<prVars, deployment, pushes>>
  /\ UNCHANGED fnVars

\* review_pr: get_pr_details and the ignore-keyword test
GetPrDetails(w) ==
  /\ cycle[w].pc = "get_pr_details"
  /\ \E ok \in BOOLEAN :
       LET c == [cycle[w] EXCEPT !.api_calls = @ + 1, !.call_failed = @ \/ ~ok] IN
       IF ~ok
       THEN SetCycle(w, ReturnResult(c, SkippedResult(NoSha, "failed to fetch PR details")))
       ELSE IF Contains(description, IGNORE_KEYWORD)
       THEN SetCycle(w, ReturnResult(c, SkippedResult(NoSha, "ignored by keyword")))
       ELSE SetCycle(w, [c EXCEPT !.pc = "find_summary",
                           !.head_sha = Head_(commits), !.base_sha = BaseSha])
  /\ UNCHANGED <<prVars, deployment, github_token, review_comments_buffer, envCounters>>
  /\ UNCHANGED <<fnVars, review_simple_changes>>

\* review_pr: find the summary comment and read its ledger
FindSummary(w) ==
  /\ cycle[w].pc = "find_summary"
  /\ \E ok \in BOOLEAN :
       LET c == [cycle[w] EXCEPT !.api_calls = @ + 1, !.call_failed = @ \/ ~ok] IN
       IF ~ok THEN SetCycle(w, Finished(c, "raised"))
       ELSE SetCycle(w, [c EXCEPT
              !.pc = IF github_token THEN "get_all_commit_ids" ELSE "compare",
              !.reviewed_ids = get_reviewed_commit_ids(
                 get_reviewed_commit_ids_block(ExistingBody(issue_comments, SUMMARIZE_TAG)))])
  /\ UNCHANGED <<prVars, deployment, github_token, review_comments_buffer, envCounters>>
  /\ UNCHANGED <<fnVars, review_simple_changes>>

\* review_pr: list the PR's commits (only with a token)
GetAllCommitIds(w) ==
  /\ cycle[w].pc = "get_all_commit_ids"
  /\ \E ok \in BOOLEAN :
       LET c == [cycle[w] EXCEPT !.api_calls = @ + 1, !.call_failed = @ \/ ~ok] IN
       IF ~ok THEN SetCycle(w, Finished(c, "raised"))
       ELSE SetCycle(w, [c EXCEPT !.pc = "compare", !.all_commits = commits])
  /\ UNCHANGED <<prVars, deployment, github_token, review_comments_buffer, envCounters>>
  /\ UNCHANGED <<fnVars, review_simple_changes>>

\* compare_base = highest_reviewed or base_sha
CompareBaseAlwaysBase(all_commits, reviewed_ids, base_sha) == base_sha

CompareBase(all_commits, reviewed_ids, base_sha) ==
  IF get_highest_reviewed_commit_id(all_commits, reviewed_ids) # NoSha
  THEN get_highest_reviewed_commit_id(all_commits, reviewed_ids)
  ELSE base_sha

\* review_pr: compare compare_base with the head
CompareBranches(w) ==
  /\ cycle[w].pc = "compare"
  /\ LET base == CompareBase(cycle[w].all_commits, cycle[w].reviewed_ids, cycle[w].base_sha)
         c == [cycle[w] EXCEPT !.api_calls = @ + 1, !.reviewed_ids = <<>>,
                               !.all_commits = <<>>, !.base_sha = NoSha,
                               !.compared = <<base, cycle[w].head_sha>>]
     IN \E ok \in BOOLEAN :
          IF ~ok
          THEN SetCycle(w, ReturnResult(
                 [c EXCEPT !.call_failed = TRUE],
                 SkippedResult(c.head_sha, "failed to compare commits")))
          ELSE \E files \in DiffFiles(base, c.head_sha) :
                 IF files = <<>>
                 THEN SetCycle(w, ReturnResult(
                        c, SkippedResult(c.head_sha, "no files to review")))
                 ELSE SetCycle(w, [c EXCEPT !.pc = "pipeline", !.files = files])
  /\ UNCHANGED <<prVars, deployment, github_token, review_comments_buffer, envCounters>>
  /\ UNCHANGED <<fnVars, review_simple_changes>>

\* review_pr: summaries, synthesis and line review; then post_review's tests
\* of result.skipped and of the token
Pipeline(w) ==
  /\ cycle[w].pc = "pipeline"
  /\ \E triage \in {"NEEDS_REVIEW", "APPROVED"}, notes \in {<<>>, <<<<"w">>>>},
        found \in BOOLEAN :
       LET r == RunPipeline(cycle[w].files, review_simple_changes, cycle[w].head_sha,
                            [i \in 1..Len(cycle[w].files) |-> triage], notes, found)
           c == [cycle[w] EXCEPT !.llm_calls = @ + r.llm_calls]
       IN SetCycle(w, ReturnResult(c, r.result))
  /\ UNCHANGED <<prVars, deployment, github_token, review_comments_buffer, envCounters>>
  /\ UNCHANGED <<fnVars, review_simple_changes>>

\* post_review: fetch the PR again for the commit the review is attached to
PostGetPrDetails(w) ==
  /\ cycle[w].pc = "post_get_pr_details"
  /\ \E ok \in BOOLEAN :
       SetCycle(w, [cycle[w] EXCEPT !.pc = "post_find_summary", !.api_calls = @ + 1,
                      !.call_failed = @ \/ ~ok,
                      !.commit_id = IF ok THEN Head_(commits) ELSE NoSha])
  /\ UNCHANGED <<prVars, deployment, github_token, review_comments_buffer, envCounters>>
  /\ UNCHANGED <<fnVars, review_simple_changes>>

\* post_review: read the ledger block, add the reviewed commit, build the body
PostFindSummary(w) ==
  /\ cycle[w].pc = "post_find_summary"
  /\ \E ok \in BOOLEAN :
       LET c == [cycle[w] EXCEPT !.api_calls = @ + 1, !.call_failed = @ \/ ~ok]
           existing_block_ ==
             get_reviewed_commit_ids_block(ExistingBody(issue_comments, SUMMARIZE_TAG))
           block == add_reviewed_commit_id(existing_block_, c.result.reviewed_sha)
       IN IF ~ok THEN SetCycle(w, Finished(c, "raised"))
          ELSE SetCycle(w, [c EXCEPT !.pc = "upsert_list",
                 !.summary_body = _build_summary_comment(
                    c.result.summary, c.result.release_notes, c.result.raw_summary,
                    c.result.short_summary, block)])
  /\ UNCHANGED <<prVars, deployment, github_token, review_comments_buffer, envCounters>>
  /\ UNCHANGED <<fnVars, review_simple_changes>>

\* upsert_issue_comment_by_tag: list the comments, find the first tagged one
UpsertList(w) ==
  /\ cycle[w].pc = "upsert_list"
  /\ \E ok \in BOOLEAN :
       LET c == [cycle[w] EXCEPT !.api_calls = @ + 1, !.call_failed = @ \/ ~ok]
           i == FirstTagged(issue_comments, SUMMARIZE_TAG)
       IN IF ~ok THEN SetCycle(w, Finished(c, "raised"))
          ELSE SetCycle(w, [c EXCEPT !.pc = "upsert_write",
                 !.listed_id = IF i = 0 THEN 0 ELSE issue_comments[i].id])
  /\ UNCHANGED <<prVars, deployment, github_token, review_comments_buffer, envCounters>>
  /\ UNCHANGED <<fnVars, review_simple_changes>>

\* where post_review goes after the summary comment
AfterUpsert(c) ==
  IF update_description_enabled /\ c.result.release_notes # <<>> THEN "update_description"
  ELSE IF c.commit_id # NoSha /\ c.result.review_comments # <<>> THEN "buffer_comments"
  ELSE "done"

AfterDescription(c) ==
  IF c.commit_id # NoSha /\ c.result.review_comments # <<>> THEN "buffer_comments" ELSE "done"

\* upsert_issue_comment_by_tag: update the comment found, else create one
UpsertWrite(w) ==
  /\ cycle[w].pc = "upsert_write"
  /\ \E ok \in BOOLEAN :
       LET c == [cycle[w] EXCEPT !.api_calls = @ + 1, !.call_failed = @ \/ ~ok] IN
       IF ~ok
       THEN /\ SetCycle(w, Finished(c, "raised"))
            /\ UNCHANGED issue_comments
       ELSE /\ issue_comments' =
                 UpsertWriteResult(issue_comments, c.listed_id, c.summary_body)
            /\ SetCycle(w, Leave([c EXCEPT !.writes = @ + 1, !.summary_body = <<>>,
                                             !.listed_id = 0], AfterUpsert(c)))
  /\ UNCHANGED <<commits, description, pr_review_comments>>
  /\ UNCHANGED <<deployment, github_token, review_comments_buffer, envCounters>>
  /\ UNCHANGED <<fnVars, review_simple_changes>>

\* update_description: GET the PR, PATCH its body; failures are logged only
UpdateDescription(w) ==
  /\ cycle[w].pc = "update_description"
  /\ \E get_ok \in BOOLEAN, patch_ok \in BOOLEAN :
       LET c == [cycle[w] EXCEPT !.api_calls = @ + (IF get_ok THEN 2 ELSE 1),
                                 !.call_failed = @ \/ ~get_ok \/ ~patch_ok]
           message == RenderNotes(c.result.release_notes)
       IN IF get_ok /\ patch_ok
          THEN /\ description' = NewDescription(description, message)
               /\ SetCycle(w, Leave([c EXCEPT !.writes = @ + 1], AfterDescription(c)))
          ELSE /\ UNCHANGED description
               /\ SetCycle(w, Leave(c, AfterDescription(c)))
  /\ UNCHANGED <<commits, issue_comments, pr_review_comments>>
  /\ UNCHANGED <<deployment, github_token, review_comments_buffer, envCounters>>
  /\ UNCHANGED <<fnVars, review_simple_changes>>

\* the loop of post_review that buffers the review comments
RECURSIVE BufferComments(_, _)
BufferComments(buffer, comments) ==
  IF comments = <<>> THEN buffer
  ELSE LET cm == Head(comments) IN
       IF cm.path = <<>> \/ cm.comment = "" \/ cm.end_line <= 0 \/ cm.comment = "LGTM"
       THEN BufferComments(buffer, Tail(comments))
       ELSE BufferComments(
              Append(buffer, [path |-> cm.path,
                              start_line |-> IF cm.start_line # 0 THEN cm.start_line
                                             ELSE cm.end_line,
                              end_line |-> cm.end_line, message |-> cm.comment]),
              Tail(comments))

Posted(buffer, commit) ==
  [i \in 1..Len(buffer) |->
     [author |-> "bot", commit_id |-> commit, path |-> buffer[i].path,
      line |-> buffer[i].end_line]]

\* _run_file_review keeps the line fields of an item as the heavy model wrote
\* them, and post_review's loop is the first to read them: words tells whether
\* the last comment gives a line in words, on which int() raises ValueError.
\* The index of the comment the loop stops at, 0 when it reaches the end.
FirstNonNumeric(comments, words) == IF words THEN Len(comments) ELSE 0

\* post_review's loop over result.review_comments appends to the buffer of the
\* service's commenter; when int() raises, the comments buffered before stay in
\* the buffer.  When the loop ends, submit_review builds its payload from the
\* buffer before its first API call.
BufferReviewComments(w) ==
  /\ cycle[w].pc = "buffer_comments"
  /\ \E words \in BOOLEAN :
       LET c == cycle[w]
           k == FirstNonNumeric(c.result.review_comments, words)
       IN IF k # 0
          THEN /\ review_comments_buffer' =
                    BufferComments(review_comments_buffer,
                                   SubSeq(c.result.review_comments, 1, k - 1))
               /\ SetCycle(w, Finished(c, "raised"))
          ELSE /\ review_comments_buffer' =
                    BufferComments(review_comments_buffer, c.result.review_comments)
               /\ SetCycle(w, [c EXCEPT !.pc = "submit_review",
                                        !.payload = review_comments_buffer'])
  /\ UNCHANGED <<prVars, deployment, github_token, envCounters>>
  /\ UNCHANGED <<fnVars, review_simple_changes>>

\* submit_review deletes the tagged inline comments, posts one review with the
\* payload and, if that fails, the comments of the buffer one by one; the
\* buffer is emptied in every case
SubmitReview(w) ==
  /\ cycle[w].pc = "submit_review"
  /\ LET c == cycle[w]
         kept == SelectSeq(pr_review_comments, LAMBDA x : x.author # "bot")
     IN \E outcome \in {"submitted", "list_failed", "post_failed"},
           del_ok \in BOOLEAN, fallback_ok \in BOOLEAN :
          /\ outcome = "submitted" => fallback_ok
          /\ outcome = "list_failed" => del_ok
          /\ LET after_delete == IF outcome # "list_failed" /\ del_ok THEN kept
                                 ELSE pr_review_comments
                 posted == IF outcome = "submitted" THEN Posted(c.payload, c.commit_id)
                           ELSE IF fallback_ok
                           THEN Posted(review_comments_buffer, c.commit_id)
                           ELSE <<>>
             IN /\ pr_review_comments' = after_delete \o posted
                /\ SetCycle(w, Finished(
                      [c EXCEPT !.api_calls = @ + 1,
                                !.call_failed = @ \/ outcome # "submitted" \/ ~del_ok,
                                !.writes = @ + (IF posted # <<>> THEN 1 ELSE 0)], "done"))
  /\ review_comments_buffer' = <<>>
  /\ UNCHANGED <<commits, description, issue_comments, deployment, github_token, envCounters>>
  /\ UNCHANGED <<fnVars, review_simple_changes>>

\* ------------------------------------------- submit_review, call by call
MaxBuffer == 2
MaxExisting == 2

BufferEntries ==
  [path : {<<"app", "py">>, <<"lib", "py">>}, start_line : {1}, end_line : {1},
   message : {"issue"}]

\* inline comments on the PR before the call: of this system (tagged) or not
ExistingComments ==
  {[author |-> "bot", commit_id |-> Sha("c0"), path |-> <<"app", "py">>, line |-> 1],
   [author |-> "user", commit_id |-> Sha("c0"), path |-> <<"app", "py">>, line |-> 1]}

Called(call, idx, ok) == [call |-> call, idx |-> idx, ok |-> ok]

RECURSIVE RemoveFirst(_, _)
RemoveFirst(seq, x) ==
  IF seq = <<>> THEN <<>>
  ELSE IF Head(seq) = x THEN Tail(seq)
  ELSE <<Head(seq)>> \o RemoveFirst(Tail(seq), x)

\* the fallback loop goes on to the next buffered comment, posted or not
NextFallbackStopOnFailure(idx, ok, n) == IF ok THEN idx + 1 ELSE n + 1

NextFallback(idx, ok, n) == idx + 1

\* finally: self.review_comments_buffer = []
BufferKeptAfterFallback(buffer, pc) == IF pc = "finally" THEN <<>> ELSE buffer

BufferAfterSubmit(buffer, pc) == <<>>

InitSubmit ==
  /\ fn = "submit_review" /\ fn_pc = "call"
  /\ review_comments_buffer \in SeqsUpTo(BufferEntries, MaxBuffer)
  /\ pr_review_comments \in SeqsUpTo(ExistingComments, MaxExisting)
  /\ pending_review \in BOOLEAN
  /\ comments_payload = <<>> /\ to_delete = <<>> /\ fallback_idx = 0 /\ api_log = <<>>
  /\ review_simple_changes = FALSE
  /\ commits = <<>> /\ description = <<>> /\ issue_comments = <<>>
  /\ deployment = "none" /\ github_token = TRUE
  /\ cycle = [w \in Workers |-> IdleCycle]
  /\ pushes = 0 /\ cycles_run = 0
  /\ AnnotateIdle /\ SkipIdle /\ LedgerIdle /\ HighestIdle /\ PipelineIdle /\ LlmIdle
  /\ UpdateIdle /\ ReplyIdle /\ ChainIdle

SubmitFrame ==
  /\ UNCHANGED <<fn, review_simple_changes>>
  /\ UNCHANGED <<commits, description, issue_comments, deployment, github_token, cycle,
                 envCounters>>
  /\ UNCHANGED <<annotateVars, skipVars, ledgerVars, highestVars, pipelineVars, llmVars,
                 updateVars, replyVars, chainVars>>

\* comments_payload is built from the buffer before the try block
SubmitBuildPayload ==
  /\ fn = "submit_review" /\ fn_pc = "call"
  /\ comments_payload' = Posted(review_comments_buffer, Sha("c1"))
  /\ fn_pc' = "list_review_comments"
  /\ UNCHANGED <<to_delete, fallback_idx, api_log, pending_review,
                 review_comments_buffer, pr_review_comments>>
  /\ SubmitFrame

\* list_review_comments; if it fails the outer except runs the fallback
SubmitList ==
  /\ fn = "submit_review" /\ fn_pc = "list_review_comments"
  /\ \E ok \in BOOLEAN :
       /\ api_log' = Append(api_log, Called("list_review_comments", 0, ok))
       /\ to_delete' = IF ok THEN SelectSeq(pr_review_comments, LAMBDA x : x.author = "bot")
                       ELSE <<>>
       /\ fn_pc' = IF ok THEN "delete_review_comment" ELSE "fallback"
       /\ fallback_idx' = IF ok THEN 0 ELSE 1
  /\ UNCHANGED <<comments_payload, pending_review, review_comments_buffer, pr_review_comments>>
  /\ SubmitFrame

\* delete_review_comment for one tagged comment; a failure is logged only
SubmitDelete ==
  /\ fn = "submit_review" /\ fn_pc = "delete_review_comment"
  /\ to_delete # <<>>
  /\ \E ok \in BOOLEAN :
       /\ api_log' = Append(api_log, Called("delete_review_comment", 0, ok))
       /\ pr_review_comments' = IF ok THEN RemoveFirst(pr_review_comments, Head(to_delete))
                                ELSE pr_review_comments
  /\ to_delete' = Tail(to_delete)
  /\ UNCHANGED <<fn_pc, comments_payload, fallback_idx, pending_review, review_comments_buffer>>
  /\ SubmitFrame

\* delete_pending_review: list the reviews, delete the pending one; it
\* catches its own exceptions
SubmitDeletePending ==
  /\ fn = "submit_review" /\ fn_pc = "delete_review_comment"
  /\ to_delete = <<>>
  /\ \E list_ok \in BOOLEAN, delete_ok \in BOOLEAN :
       /\ ~(list_ok /\ pending_review) => delete_ok
       /\ api_log' = Append(api_log, Called("delete_pending_review", 0, list_ok /\ delete_ok))
       /\ pending_review' = (pending_review /\ ~(list_ok /\ delete_ok))
  /\ fn_pc' = "post_review"
  /\ UNCHANGED <<comments_payload, to_delete, fallback_idx, review_comments_buffer,
                 pr_review_comments>>
  /\ SubmitFrame

\* POST the review with all the comments of the payload
SubmitPost ==
  /\ fn = "submit_review" /\ fn_pc = "post_review"
  /\ \E ok \in BOOLEAN :
       /\ api_log' = Append(api_log, Called("post_review", 0, ok))
       /\ pr_review_comments' = IF ok THEN pr_review_comments \o comments_payload
                                ELSE pr_review_comments
       /\ fn_pc' = IF ok THEN "finally" ELSE "fallback"
       /\ fallback_idx' = IF ok THEN 0 ELSE 1
  /\ UNCHANGED <<comments_payload, to_delete, pending_review, review_comments_buffer>>
  /\ SubmitFrame

\* the fallback loop: create_review_comment for one buffered comment
SubmitFallback ==
  /\ fn = "submit_review" /\ fn_pc = "fallback"
  /\ fallback_idx <= Len(review_comments_buffer)
  /\ \E ok \in BOOLEAN :
       /\ api_log' = Append(api_log, Called("create_review_comment", fallback_idx, ok))
       /\ pr_review_comments' =
            IF ok THEN pr_review_comments
                         \o Posted(<<review_comments_buffer[fallback_idx]>>, Sha("c1"))
            ELSE pr_review_comments
       /\ fallback_idx' = NextFallback(fallback_idx, ok, Len(review_comments_buffer))
  /\ UNCHANGED <<fn_pc, comments_payload, to_delete, pending_review, review_comments_buffer>>
  /\ SubmitFrame

\* the finally clause, after the review was posted or the fallback loop ended
SubmitFinally ==
  /\ fn = "submit_review"
  /\ \/ fn_pc = "finally"
     \/ fn_pc = "fallback" /\ fallback_idx > Len(review_comments_buffer)
  /\ review_comments_buffer' = BufferAfterSubmit(review_comments_buffer, fn_pc)
  /\ fn_pc' = "return"
  /\ UNCHANGED <<comments_payload, to_delete, fallback_idx, api_log, pending_review,
                 pr_review_comments>>
  /\ SubmitFrame

\* ------------------------------------ update_description, call after call
MaxUpdates == 3

\* descriptions as their authors wrote them: no release-notes tag
AuthorTexts ==
  {<<>>, <<"w">>, <<"w", NL>>, <<SP, "w">>, <<"w", NL, NL, "x">>}

\* release_message of post_review, and messages that carry a tag themselves
ReleaseMessages ==
  {RenderNotes(<<<<"a">>>>), RenderNotes(<<<<"a">>, <<"b">>>>),
   <<"-", SP, "a", DESCRIPTION_END_TAG>>,
   <<"-", SP, "a", DESCRIPTION_START_TAG, "b", DESCRIPTION_END_TAG>>}

InitUpdate ==
  /\ fn = "update_description" /\ fn_pc = "call"
  /\ body_arg \in AuthorTexts
  /\ description = body_arg
  /\ messages_arg = <<>>
  /\ review_simple_changes = FALSE
  /\ commits = <<>> /\ issue_comments = <<>> /\ pr_review_comments = <<>>
  /\ deployment = "none" /\ github_token = TRUE
  /\ cycle = [w \in Workers |-> IdleCycle]
  /\ review_comments_buffer = <<>>
  /\ pushes = 0 /\ cycles_run = 0
  /\ AnnotateIdle /\ SkipIdle /\ LedgerIdle /\ HighestIdle /\ PipelineIdle /\ LlmIdle
  /\ SubmitIdle /\ ReplyIdle /\ ChainIdle

\* one call of update_description; when the GET or the PATCH fails the
\* exception is logged and the description stays as it was
UpdateDescriptionCall ==
  /\ fn = "update_description" /\ fn_pc = "call"
  /\ Len(messages_arg) < MaxUpdates
  /\ \E message \in ReleaseMessages, get_ok \in BOOLEAN, patch_ok \in BOOLEAN :
       /\ get_ok \/ patch_ok
       /\ IF get_ok /\ patch_ok
          THEN /\ description' = NewDescription(description, message)
               /\ messages_arg' = Append(messages_arg, message)
          ELSE UNCHANGED <<description, messages_arg>>
  /\ UNCHANGED <<fn, fn_pc, body_arg, review_simple_changes>>
  /\ UNCHANGED <<commits, issue_comments, pr_review_comments, deployment, github_token,
                 cycle, review_comments_buffer, envCounters>>
  /\ UNCHANGED <<annotateVars, skipVars, ledgerVars, highestVars, pipelineVars, llmVars,
                 submitVars, replyVars, chainVars>>

\* ------------------------------------------ replies to review comments
MaxThread == 3

COMMENT_REPLY_TAG == "<!-- auto-generated reply: pr review -->"
MENTION == "@coderabbitai"

\* buffer_review_comment: f"{COMMENT_GREETING}\n\n{message}\n\n{COMMENT_TAG}"
InlineBody == <<"greeting", NL, NL, "issue", NL, NL, COMMENT_TAG>>

\* what people write: with or without the mention
UserBodies == {<<"why">>, <<MENTION, SP, "why">>}

\* answers of the heavy model to the chat prompt
ChatAnswers == {<<SP, MENTION, SP, "because", NL>>}

\* content.strip()[:2000]
ReplyText(content) ==
  LET t == Strip(content) IN SubSeq(t, 1, IF Len(t) < 2000 THEN Len(t) ELSE 2000)

\* reply_review_comment: the body that is posted
ReplyBodyUntagged(body) == body

ReplyBody(body) == body \o <<NL, NL, COMMENT_REPLY_TAG>>

\* the handler's test on the body of the comment of the event
CarriesOwnTagReviewOnly(body) == Contains(body, COMMENT_TAG)

CarriesOwnTag(body) == Contains(body, COMMENT_TAG) \/ Contains(body, COMMENT_REPLY_TAG)

\* get_comment_chain: the comments from `id` up to the top of its thread,
\* top first, over the listing `comments` (ids are positions)
RECURSIVE ChainFrom(_, _)
ChainFrom(comments, id) ==
  LET current == comments[id] IN
  IF current.in_reply_to = 0 \/ current.in_reply_to > Len(comments) THEN <<current>>
  ELSE Append(ChainFrom(comments, current.in_reply_to), current)

\* chain_text: "login: body" of every comment of the chain, one per line
ChainText(chain) ==
  JoinLines([i \in 1..Len(chain) |-> <<chain[i].user, ":", SP>> \o chain[i].body])

\* top_level of get_comment_chain: the comment without in_reply_to the walk
\* reached, else the comment of the event
TopLevel(comments, id) ==
  LET first == ChainFrom(comments, id)[1]
  IN IF first.in_reply_to = 0 THEN first ELSE comments[id]

\* `mention not in body and mention not in comment_chain`, negated
MentionNotRequired(body, chain_text) == TRUE

MentionFound(body, chain_text) == Contains(body, MENTION) \/ Contains(chain_text, MENTION)

InitReply ==
  /\ fn = "handle_review_comment_event" /\ fn_pc = "call"
  /\ github_token \in BOOLEAN
  \* no comment yet, or the inline comment of a published review and its
  \* webhook event
  /\ pr_review_comments \in {<<>>, <<[id |-> 1, via |-> "submit_review", user |-> "bot",
                                      body |-> InlineBody, in_reply_to |-> 0]>>}
  /\ events = 1..Len(pr_review_comments)
  /\ handled = {}
  /\ review_simple_changes = FALSE
  /\ commits = <<>> /\ description = <<>> /\ issue_comments = <<>>
  /\ deployment = "none"
  /\ cycle = [w \in Workers |-> IdleCycle]
  /\ review_comments_buffer = <<>>
  /\ pushes = 0 /\ cycles_run = 0
  /\ AnnotateIdle /\ SkipIdle /\ LedgerIdle /\ HighestIdle /\ PipelineIdle /\ LlmIdle
  /\ SubmitIdle /\ UpdateIdle /\ ChainIdle

ReplyFrame ==
  /\ UNCHANGED <<fn, fn_pc, review_simple_changes>>
  /\ UNCHANGED <<commits, description, issue_comments, deployment, github_token, cycle,
                 review_comments_buffer, envCounters>>
  /\ UNCHANGED <<annotateVars, skipVars, ledgerVars, highestVars, pipelineVars, llmVars,
                 submitVars, updateVars, chainVars>>

\* someone writes a review comment, top-level or in a thread; GitHub sends
\* the 'created' event for it
UserWritesComment ==
  /\ fn = "handle_review_comment_event"
  /\ Len(pr_review_comments) < MaxThread
  /\ \E body \in UserBodies, parent \in 0..Len(pr_review_comments) :
       LET id == Len(pr_review_comments) + 1 IN
       /\ pr_review_comments' =
            Append(pr_review_comments,
                   [id |-> id, via |-> "user", user |-> "dev", body |-> body,
                    in_reply_to |-> parent])
       /\ events' = events \cup {id}
  /\ UNCHANGED handled
  /\ ReplyFrame

Outcome(id, action, llm, replied) ==
  [comment |-> id, action |-> action, llm |-> llm, replied |-> replied]

\* handle_review_comment_event for one delivered event: a 'created' event
\* that is pending, or an 'edited' or 'deleted' event of any comment (what
\* the handler did with such an event is kept once per action, under id 0)
HandleReviewCommentEvent ==
  /\ fn = "handle_review_comment_event"
  /\ \E id \in 1..Len(pr_review_comments), action \in {"created", "edited", "deleted"},
        has_comment \in BOOLEAN, has_pr \in BOOLEAN, list_ok \in BOOLEAN, llm_ok \in BOOLEAN,
        content \in ChatAnswers, reply_ok \in BOOLEAN :
       LET comment == pr_review_comments[id]
           comment_chain == ChainFrom(pr_review_comments, id)
           top_level == TopLevel(pr_review_comments, id)
           mentioned == MentionFound(comment.body, ChainText(comment_chain))
           reads_body == action = "created" /\ has_comment
           asks == /\ reads_body /\ ~CarriesOwnTag(comment.body)
                   /\ has_pr /\ list_ok /\ mentioned
           replies == asks /\ llm_ok /\ github_token /\ reply_ok
       IN
       /\ action = "created" => id \in events
       \* inputs that are not read on the path taken are fixed
       /\ action # "created" => has_comment
       /\ ~(reads_body /\ ~CarriesOwnTag(comment.body)) => has_pr
       /\ ~(reads_body /\ ~CarriesOwnTag(comment.body) /\ has_pr) => list_ok
       /\ ~asks => llm_ok
       /\ ~(asks /\ llm_ok /\ github_token) => reply_ok
       /\ replies => Len(pr_review_comments) < MaxThread
       /\ handled' = handled \cup {Outcome(IF action = "created" THEN id ELSE 0,
                                            action, asks, replies)}
       /\ IF replies
          THEN LET rid == Len(pr_review_comments) + 1 IN
               /\ pr_review_comments' =
                    Append(pr_review_comments,
                           [id |-> rid, via |-> "reply_review_comment", user |-> "bot",
                            body |-> ReplyBody(<<"@", comment.user, SP>> \o ReplyText(content)),
                            in_reply_to |-> top_level.id])
               /\ events' = (IF action = "created" THEN events \ {id} ELSE events) \cup {rid}
          ELSE /\ UNCHANGED pr_review_comments
               /\ events' = IF action = "created" THEN events \ {id} ELSE events
  /\ ReplyFrame

\* ------------------------------------- get_comment_chain, step by step
MaxComments == 3

\* the comments list_review_comments returns: ids 1..n, each with the id it
\* replies to (0: none; n + 1: a comment that is not in the listing)
Listings ==
  UNION {[1..n -> [id : 1..n, user : {"dev"}, body : {<<"why">>}, in_reply_to : 0..(n + 1)]]
           : n \in 1..MaxComments}

\* by_id.get(parent_id)
ById(comments, id) ==
  IF \E i \in 1..Len(comments) : comments[i].id = id
  THEN comments[CHOOSE i \in 1..Len(comments) :
                  /\ comments[i].id = id
                  /\ \A j \in (i + 1)..Len(comments) : comments[j].id # id]
  ELSE NoComment

\* chain = list(reversed(chain))
NotReversed(s) == s

Reversed(s) == [i \in 1..Len(s) |-> s[Len(s) + 1 - i]]

InitChain ==
  /\ fn = "get_comment_chain" /\ fn_pc = "call"
  /\ pr_review_comments \in Listings
  /\ \A i \in 1..Len(pr_review_comments) : pr_review_comments[i].id = i
  /\ \E i \in 1..Len(pr_review_comments) : comment_arg = pr_review_comments[i]
  /\ chain_acc = <<>> /\ current_comment = NoComment /\ top_level_comment = NoComment /\ chain_text_out = <<>>
  /\ review_simple_changes = FALSE
  /\ commits = <<>> /\ description = <<>> /\ issue_comments = <<>>
  /\ deployment = "none" /\ github_token = TRUE
  /\ cycle = [w \in Workers |-> IdleCycle]
  /\ review_comments_buffer = <<>>
  /\ pushes = 0 /\ cycles_run = 0
  /\ AnnotateIdle /\ SkipIdle /\ LedgerIdle /\ HighestIdle /\ PipelineIdle /\ LlmIdle
  /\ SubmitIdle /\ UpdateIdle /\ ReplyIdle

ChainFrame ==
  /\ UNCHANGED <<fn, review_simple_changes, comment_arg>>
  /\ UNCHANGED cycleVars
  /\ UNCHANGED <<annotateVars, skipVars, ledgerVars, highestVars, pipelineVars, llmVars,
                 submitVars, updateVars, replyVars>>

\* comments = self.list_review_comments(...); current = comment; top_level = comment
ChainList ==
  /\ fn = "get_comment_chain" /\ fn_pc = "call"
  /\ \E ok \in BOOLEAN :
       IF ok
       THEN /\ current_comment' = comment_arg /\ top_level_comment' = comment_arg
            /\ fn_pc' = "while"
       ELSE /\ fn_pc' = "raise"
            /\ UNCHANGED <<current_comment, top_level_comment>>
  /\ UNCHANGED <<chain_acc, chain_text_out>>
  /\ ChainFrame

\* one turn of `while current:`; the chain_acc is a list that can grow as long
\* as memory lasts, the model stops the walk at MaxComments + 2 entries
ChainWalk ==
  /\ fn = "get_comment_chain" /\ fn_pc = "while"
  /\ Len(chain_acc) < MaxComments + 2
  /\ chain_acc' = Append(chain_acc, current_comment)
  /\ IF current_comment.in_reply_to = 0
     THEN /\ top_level_comment' = current_comment
          /\ fn_pc' = "reverse"
          /\ UNCHANGED current_comment
     ELSE LET parent == ById(pr_review_comments, current_comment.in_reply_to) IN
          /\ current_comment' = parent
          /\ fn_pc' = IF parent = NoComment THEN "reverse" ELSE "while"
          /\ UNCHANGED top_level_comment
  /\ UNCHANGED chain_text_out
  /\ ChainFrame

\* after the loop: reverse the chain_acc, render it, return
ChainReturn ==
  /\ fn = "get_comment_chain" /\ fn_pc = "reverse"
  /\ chain_acc' = Reversed(chain_acc)
  /\ chain_text_out' = ChainText(Reversed(chain_acc))
  /\ fn_pc' = "return"
  /\ UNCHANGED <<current_comment, top_level_comment>>
  /\ ChainFrame

\* ------------------------------------------------------ specifications
vars == <<fnVars, review_simple_changes, cycleVars>>

Descriptions == {<<"w">>, <<"w", SP, IGNORE_KEYWORD>>}

InitPR ==
  /\ FnIdle
  /\ commits = <<Sha("c1"), Sha("c2")>>
  /\ description \in Descriptions
  /\ issue_comments = <<[id |-> 1, author |-> "user", body |-> <<"w">>]>>
  /\ pr_review_comments = <<>>
  /\ review_comments_buffer = <<>>
  /\ cycle = [w \in Workers |-> IdleCycle]
  /\ pushes = 0 /\ cycles_run = 0
  /\ github_token \in BOOLEAN
  /\ review_simple_changes \in BOOLEAN

Environment == Push \/ ForcePush

Step(w) ==
  \/ GetPrDetails(w)
  \/ FindSummary(w)
  \/ GetAllCommitIds(w)
  \/ CompareBranches(w)
  \/ Pipeline(w)
  \/ PostGetPrDetails(w)
  \/ PostFindSummary(w)
  \/ UpsertList(w)
  \/ UpsertWrite(w)
  \/ UpdateDescription(w)
  \/ BufferReviewComments(w)
  \/ SubmitReview(w)

\* the webhook server: one service instance (get_review_service builds it once,
\* with REVIEW_SIMPLE_CHANGES at its default "0"), a thread per pull_request
\* delivery, the threads run concurrently
Init == InitPR /\ deployment = "server" /\ ~review_simple_changes

Next ==
  \/ Environment
  \/ \E w \in Workers : StartCycle(w) \/ Step(w)

Spec == Init /\ [][Next]_vars

\* post_review calls awaited one after another, never two at a time
InitSeq == InitPR /\ deployment = "script"

NextSeq ==
  \/ Environment
  \/ StartCycle(1) \/ NextCycle(1) \/ NewServiceCycle(1)
  \/ Step(1)

SpecSeq == InitSeq /\ [][NextSeq]_vars

\* function-level runs
InitFn ==
  \/ InitAnnotate \/ InitSkip \/ InitLedger \/ InitHighest \/ InitPipeline
  \/ InitLlmStep \/ InitSubmit \/ InitUpdate \/ InitReply \/ InitChain

NextFn ==
  \/ ExtractLine
  \/ ExtractReturn
  \/ ShouldSkipReview
  \/ AddReviewedCommitId
  \/ BuildSummaryComment
  \/ AddAgainFromComment
  \/ GetHighestReviewedCommitId
  \/ ReviewPrLoops
  \/ ReadLlmAnswer
  \/ SubmitBuildPayload
  \/ SubmitList
  \/ SubmitDelete
  \/ SubmitDeletePending
  \/ SubmitPost
  \/ SubmitFallback
  \/ SubmitFinally
  \/ UpdateDescriptionCall
  \/ UserWritesComment
  \/ HandleReviewCommentEvent
  \/ ChainList
  \/ ChainWalk
  \/ ChainReturn

SpecFn == InitFn /\ [][NextFn]_vars

\* ============================================================== claims
\* ---- function-level claims, checked under SpecFn

HighestReturned == fn = "get_highest_reviewed_commit_id" /\ fn_pc = "return"

\* C3: get_highest_reviewed_commit_id returns the element of all_commits with
\* the greatest index that occurs in the reviewed list, whatever the order of
\* the reviewed list, and the empty string when no element is reviewed.
C3_HighestIsChronologicallyLast ==
  HighestReturned =>
    IF \E i \in 1..Len(all_commits_arg) : InSeq(all_commits_arg[i], reviewed_arg)
    THEN \E i \in 1..Len(all_commits_arg) :
           /\ highest = all_commits_arg[i]
           /\ InSeq(all_commits_arg[i], reviewed_arg)
           /\ \A j \in (i + 1)..Len(all_commits_arg) : ~InSeq(all_commits_arg[j], reviewed_arg)
    ELSE highest = <<>>

\* history c0..c4, ledger appended in the order c3, c1: the answer is c3
C3_Witness ==
  /\ HighestReturned
  /\ all_commits_arg = <<Sha("c0"), Sha("c1"), Sha("c2"), Sha("c3"), Sha("c4")>>
  /\ reviewed_arg = <<Sha("c3"), Sha("c1")>>
  /\ highest = Sha("c3")

LedgerOf(text) == get_reviewed_commit_ids(get_reviewed_commit_ids_block(text))

Occurrences(x, s) == Cardinality({i \in 1..Len(s) : s[i] = x})

LedgerReturned == fn = "add_reviewed_commit_id" /\ fn_pc = "return"

\* C6: adding a commit id that the ledger holds leaves the id sequence as it
\* was; adding a new one puts it after all existing ids, one id per line;
\* adding it again to the block read back from the posted summary comment
\* gives the same block, with the id exactly once.
C6_AddIsIdempotentAndOrdered ==
  (LedgerReturned /\ commit_id # <<>>) =>
    LET ids0 == get_reviewed_commit_ids(existing_block)
        ids1 == LedgerOf(commit_id_block)
    IN /\ InSeq(commit_id, ids0) => ids1 = ids0
       /\ ~InSeq(commit_id, ids0) => ids1 = Append(ids0, commit_id)
       /\ SplitLines(get_reviewed_commit_ids_block(commit_id_block)) = ids1
       /\ second_block = commit_id_block
       /\ LedgerOf(summary_body) = ids1
       /\ NoDup(ids0) => Occurrences(commit_id, LedgerOf(second_block)) = 1

C6_Witness ==
  /\ LedgerReturned
  /\ existing_block = <<"c1">>
  /\ commit_id = Sha("c2")
  /\ LedgerOf(commit_id_block) = <<Sha("c1"), Sha("c2")>>
  /\ LedgerOf(second_block) = <<Sha("c1"), Sha("c2")>>

ExtractReturned == fn = "_extract_numbered_hunks" /\ fn_pc = "return"

HasHunkHeader(p) == \E i \in 1..Len(p) : p[i].prefix = "@@"

\* C7: a patch without any line starting with "@@" yields no numbered lines,
\* so the line-review step makes no LLM call for it.
C7_NoHeaderNoNumberedLines ==
  (ExtractReturned /\ ~HasHunkHeader(patch)) =>
    (numbered_lines = <<>> /\ ~FileReviewCallsLLM)

\* the header of the hunk that line i lies in: the last header before i, 0 if none
HunkHeaderOf(p, i) ==
  IF \E h \in 1..(i - 1) : p[h].prefix = "@@"
  THEN CHOOSE h \in 1..(i - 1) :
         p[h].prefix = "@@" /\ \A k \in (h + 1)..(i - 1) : p[k].prefix # "@@"
  ELSE 0

\* C8: a header "@@ -a,b +c,d @@" resets the counter to c; every added and
\* every context line is tagged c plus the number of added and context lines
\* before it in its hunk; removed lines get no number.
C8_LineNumbersFollowHunkStart ==
  \A i \in 1..Len(numbered_lines) :
    LET h == HunkHeaderOf(patch, i) IN
    /\ (patch[i].prefix \in {"+", " "} /\ h # 0 /\ patch[h].new_start # NoMatch) =>
         numbered_lines[i].num =
           patch[h].new_start
           + Cardinality({k \in (h + 1)..(i - 1) : patch[k].prefix \in {"+", " "}})
    /\ patch[i].prefix = "-" => numbered_lines[i].num = NoNumber

SkipReturned == fn = "_should_skip_review" /\ fn_pc = "return"

\* C9 as stated: simple exactly when review_simple_changes is off and the
\* total of additions and deletions is strictly below the threshold.
C9_SimpleIffBelowThreshold ==
  SkipReturned =>
    (skip_result.reason = SimpleReason
       <=> (~review_simple_changes /\ TotalChanges(files_arg) < simple_change_threshold))

\* C9 amended: simple exactly when review_simple_changes is off and the total
\* is at most the threshold.
C9_SimpleIffAtMostThreshold ==
  SkipReturned =>
    /\ skip_result.reason = SimpleReason
         <=> (~review_simple_changes /\ TotalChanges(files_arg) <= simple_change_threshold)
    /\ skip_result.reason = SimpleReason => skip_result.skipped

C9_Witness ==
  /\ SkipReturned
  /\ ~review_simple_changes
  /\ TotalChanges(files_arg) = simple_change_threshold
  /\ skip_result = [skipped |-> TRUE, reason |-> SimpleReason]

OnlySkipExtensions(files) ==
  files # <<>> /\ Extensions(files) # {} /\ Extensions(files) \subseteq skip_extensions

\* C10 as stated: a file list with only skip-list extensions is classified
\* documentation-only, whatever the total and review_simple_changes.
C10_DocsOnlyAlways ==
  (SkipReturned /\ OnlySkipExtensions(files_arg)) => skip_result.reason = DocsReason

\* C10 amended: such a list is always skipped; it is classified
\* documentation-only exactly when it is not classified simple first, that is
\* when review_simple_changes is on or the total exceeds the threshold.
C10_DocsOnlyUnlessSimple ==
  (SkipReturned /\ OnlySkipExtensions(files_arg)) =>
    /\ skip_result.skipped
    /\ skip_result.reason = DocsReason
         <=> (review_simple_changes \/ TotalChanges(files_arg) > simple_change_threshold)
    /\ skip_result.reason = SimpleReason
         <=> (~review_simple_changes /\ TotalChanges(files_arg) <= simple_change_threshold)

C10_Witness ==
  /\ SkipReturned
  /\ OnlySkipExtensions(files_arg)
  /\ ~review_simple_changes
  /\ TotalChanges(files_arg) > simple_change_threshold
  /\ skip_result = [skipped |-> TRUE, reason |-> DocsReason]


\* ---- claims about the summary comment, checked under SpecSeq and Spec

TaggedComments == {i \in 1..Len(issue_comments) : Contains(issue_comments[i].body, SUMMARIZE_TAG)}

\* the ledger as review_pr and post_review read it: from the first comment
\* that carries the summary tag
PublishedLedger(comments) ==
  get_reviewed_commit_ids(get_reviewed_commit_ids_block(ExistingBody(comments, SUMMARIZE_TAG)))

LedgerIds(comments) ==
  LET ledger == PublishedLedger(comments) IN {ledger[i] : i \in 1..Len(ledger)}

\* C1: under any interleaving of post_review calls for one PR, a commit id
\* that is in the ledger of the tagged summary comment is in it after every
\* later step: no step removes an id from the ledger.
C1_LedgerNeverLosesAnId ==
  [][issue_comments' # issue_comments =>
       LedgerIds(issue_comments) \subseteq LedgerIds(issue_comments')]_vars

\* C2: when the upserts do not overlap, no step leaves more than one comment
\* with the summary tag; an upsert that finds none creates one comment, and an
\* upsert that finds one changes that comment and creates nothing.
C2_SequentialUpsertKeepsOneComment ==
  [][issue_comments' # issue_comments =>
       /\ Cardinality(TaggedComments') = 1
       /\ TaggedComments = {} => Len(issue_comments') = Len(issue_comments) + 1
       /\ TaggedComments # {} =>
            /\ TaggedComments' = TaggedComments
            /\ Len(issue_comments') = Len(issue_comments)]_vars

\* the one tagged comment after a second upsert updated it: its ledger holds
\* the ids of two publishes
C2_Witness ==
  /\ Cardinality(TaggedComments) = 1
  /\ Len(issue_comments) = 2
  /\ Len(PublishedLedger(issue_comments)) = 2
  /\ cycle[1].pc = "done" /\ cycle[1].writes >= 1

\* ---- claims about one review_pr call, checked under SpecSeq

\* the commits of the PR, as the call lists them (with a token) or as they are
PRCommits(c) == IF github_token THEN c.all_commits ELSE commits

LedgerHoldsCommitOf(all, ids) == \E i \in 1..Len(all) : InSeq(all[i], ids)

\* the last commit of all, in the PR's order, that is in ids
LastReviewed(all, ids) ==
  all[CHOOSE i \in 1..Len(all) :
        /\ InSeq(all[i], ids)
        /\ \A j \in (i + 1)..Len(all) : ~InSeq(all[j], ids)]

ComparesFiles(w) == cycle[w].pc = "compare" /\ cycle'[w].pc = "pipeline"

\* C4: the diff review_pr reviews is the comparison from compare_base to the
\* head it read, where compare_base is the last commit of the PR that the ledger
\* holds whenever the ledger holds a commit of the PR, and the base commit
\* otherwise.
C4_CompareBaseIsHighestReviewed ==
  [][\A w \in Workers : ComparesFiles(w) =>
       cycle'[w].compared =
         << IF LedgerHoldsCommitOf(PRCommits(cycle[w]), cycle[w].reviewed_ids)
            THEN LastReviewed(PRCommits(cycle[w]), cycle[w].reviewed_ids)
            ELSE cycle[w].base_sha,
            cycle[w].head_sha >>]_vars

\* C4 as the code has it: the ledger is matched against the PR's commits only
\* when a token is configured; without a token compare_base is the base commit.
C4_CompareBaseIsHighestReviewedWithToken ==
  [][\A w \in Workers : ComparesFiles(w) =>
       cycle'[w].compared =
         << IF github_token
               /\ LedgerHoldsCommitOf(cycle[w].all_commits, cycle[w].reviewed_ids)
            THEN LastReviewed(cycle[w].all_commits, cycle[w].reviewed_ids)
            ELSE cycle[w].base_sha,
            cycle[w].head_sha >>]_vars

\* a call that reviews only what was pushed after the last publish
C4_Witness ==
  /\ cycle[1].pc = "pipeline"
  /\ cycle[1].compared = <<Sha("c2"), Sha("c3")>>

SkipReasons ==
  {"ignored by keyword", "failed to fetch PR details", "failed to compare commits",
   "no files to review"}

EndedSkipped(w) == cycle[w].pc = "done" /\ cycle[w].result.skipped

\* C5: a post_review call that ends with a skipped result has one of the four
\* skip reasons and made no LLM call and no GitHub write; when the reason is
\* "ignored by keyword" its only API call was the fetch of the PR details.
C5_SkippedCycleCallsNothing ==
  \A w \in Workers : EndedSkipped(w) =>
    /\ cycle[w].result.skip_reason \in SkipReasons
    /\ cycle[w].llm_calls = 0
    /\ cycle[w].writes = 0
    /\ cycle[w].result.skip_reason = "ignored by keyword" => cycle[w].api_calls = 1

\* a call that found nothing new to review on a PR that has a summary comment
C5_Witness ==
  /\ EndedSkipped(1)
  /\ cycle[1].result.skip_reason = "no files to review"
  /\ cycle[1].api_calls = 4
  /\ TaggedComments # {}

\* ---- claims about the prompt pipeline of review_pr, checked under SpecSeq

\* the Pipeline step of call w: from the classification to review_pr's return
RunsPipeline(w) == cycle[w].pc = "pipeline" /\ cycle'[w].pc # "pipeline"

\* the files the file-summary loop summarises (max_files is 0: no limit)
SummarisedCount(files) ==
  Cardinality({i \in 1..Len(files) :
                 HasPathAndPatch(files[i]) /\ FileExt(files[i].filename) \notin skip_extensions})

SimpleOrDocsOnly(files) ==
  \/ ~review_simple_changes /\ _should_skip_review(files, review_simple_changes).reason = SimpleReason
  \/ _should_skip_review(files, review_simple_changes).reason = DocsReason

PipelineReturned == fn = "review_pr" /\ fn_pc = "return"

\* file i was summarised and the light model's verdict for it is APPROVED
Approved(i) ==
  /\ HasPathAndPatch(files_arg[i])
  /\ FileExt(files_arg[i].filename) \notin skip_extensions
  /\ triages_arg[i] = "APPROVED"

HasCommentOn(path) ==
  \E k \in 1..Len(pipeline_out.review_comments) : pipeline_out.review_comments[k].path = path

\* C12: with review_simple_changes False a file whose verdict is APPROVED is
\* not handed to the line review and no review comment is on it; with
\* review_simple_changes True it is line-reviewed (and gets the comment the
\* review reports) as a NEEDS_REVIEW file is.
C12_ApprovedFilesAreNotLineReviewed ==
  PipelineReturned =>
    \A i \in 1..Len(files_arg) : Approved(i) =>
      IF review_simple_changes
      THEN /\ InSeq(files_arg[i].filename, pipeline_out.line_reviewed)
           /\ HasCommentOn(files_arg[i].filename)
      ELSE /\ ~InSeq(files_arg[i].filename, pipeline_out.line_reviewed)
           /\ ~HasCommentOn(files_arg[i].filename)

\* of two 21-line files the APPROVED one is left out, the other is reviewed
C12_Witness ==
  /\ PipelineReturned /\ ~review_simple_changes
  /\ Len(files_arg) = 2 /\ Approved(1) /\ triages_arg[2] = "NEEDS_REVIEW"
  /\ pipeline_out.line_reviewed = <<files_arg[2].filename>>
  /\ pipeline_out.llm_calls = 2 + 4 + 1

\* ---- claims about failing API calls, checked under SpecSeq

\* the steps of review_pr that fetch: the PR details, the comments (for the
\* ledger), the PR's commit list, the comparison
FetchSteps == {"get_pr_details", "find_summary", "get_all_commit_ids", "compare"}

\* C13: no fetch of review_pr ends the call with an exception: after a fetch
\* step the call goes on or has returned (a failed fetch returns a skipped
\* result that carries a reason).
C13_FailedFetchNeverRaises ==
  [][\A w \in Workers : cycle[w].pc \in FetchSteps =>
       /\ cycle'[w].pc # "raised"
       /\ (cycle'[w].pc = "done" /\ cycle'[w].result.skipped)
            => cycle'[w].result.skip_reason # ""]_vars

LlmStepEnded == fn \in LlmSteps /\ fn_pc \in {"return", "raise"}

\* the answer has the shape the step expects: an object for the file summary
\* and the release notes, an array for the line review
ExpectedShape ==
  IF fn = "_run_file_review" THEN llm_response.kind = "array"
  ELSE llm_response.kind = "object"

DegradedValue ==
  CASE fn = "_run_file_summary" -> [summary |-> "content[:300]", triage |-> "NEEDS_REVIEW"]
    [] fn = "_run_summary" -> <<>>
    [] fn = "_run_file_review" -> <<>>

\* C14: whatever text the LLM returns, the file-summary, release-notes and
\* line-review steps return (none raises); for an answer that is not JSON, is
\* malformed or has not the expected shape they return their defaults: the raw
\* text cut to 300 characters with triage NEEDS_REVIEW, no release notes, no
\* comments.
C14_EveryAnswerDegradesToDefaults ==
  LlmStepEnded =>
    /\ ~llm_out.raised
    /\ ~ExpectedShape => llm_out.value = DegradedValue

\* ---- claims about publishing, checked under SpecSeq

\* C15: with no token no step of a post_review call changes the PR's issue
\* comments (the summary comment and its ledger), description or inline
\* review comments, and a call whose review_pr ran the pipeline returns its
\* result, not skipped, having written nothing.
C15_NoTokenNoWrite ==
  [][~github_token =>
       /\ UNCHANGED <<description, issue_comments, pr_review_comments>>
       /\ \A w \in Workers : RunsPipeline(w) =>
            /\ cycle'[w].pc = "done"
            /\ ~cycle'[w].result.skipped
            /\ cycle'[w].result.summary # <<>>
            /\ cycle'[w].writes = 0]_vars

\* a tokenless call returned a review of a PR that an earlier call with a
\* token had published on
C15_Witness ==
  /\ ~github_token
  /\ cycle[1].pc = "done" /\ ~cycle[1].result.skipped
  /\ cycle[1].llm_calls >= 4 /\ cycle[1].writes = 0
  /\ TaggedComments # {}

\* the inline comments on the PR that carry COMMENT_TAG
TaggedInline == SelectSeq(pr_review_comments, LAMBDA x : x.author = "bot")

Places(comments) == [i \in 1..Len(comments) |-> <<comments[i].path, comments[i].line>>]

\* post_review returned a result it published, and none of its API calls failed
PublishedCleanly(w) ==
  /\ cycle[w].pc = "done" /\ ~cycle[w].result.skipped
  /\ cycle[w].writes >= 1 /\ ~cycle[w].call_failed

\* C16: when post_review has published a reviewed result and no API call
\* failed, the tagged inline comments on the PR are exactly the review comments
\* of that result, whatever their number (zero included): every tagged inline
\* comment posted before is deleted.
C16_OnlyCurrentTaggedInlineComments ==
  \A w \in Workers : PublishedCleanly(w) =>
    Places(TaggedInline) =
      Places(Posted(BufferComments(<<>>, cycle[w].result.review_comments), NoSha))

\* ------------------------------------------------------------------- C17
SubmitReturned == fn = "submit_review" /\ fn_pc = "return"

CallsOf(call) == SelectSeq(api_log, LAMBDA e : e.call = call)

HasCall(call, ok) == \E i \in 1..Len(api_log) : api_log[i].call = call /\ api_log[i].ok = ok

\* the outer except ran: the listing or the POST of the review failed
FallbackRan == HasCall("list_review_comments", FALSE) \/ HasCall("post_review", FALSE)

FallbackAttempts == CallsOf("create_review_comment")

\* C17: when submit_review returns after its fallback, every buffered comment
\* was attempted individually exactly once, in buffer order, whichever of the
\* attempts failed, and every attempt that succeeded left its comment on the
\* pull request; without a fallback no comment is posted individually; a
\* failed deletion of a stale comment or of the pending review does not keep
\* the review from being posted (it is posted exactly once whenever the
\* listing succeeded); and submit_review never ends by raising.
C17_FallbackAttemptsEveryComment ==
  /\ fn = "submit_review" => fn_pc # "raise"
  /\ SubmitReturned =>
       /\ FallbackRan =>
            /\ Len(FallbackAttempts) = Len(comments_payload)
            /\ \A i \in 1..Len(FallbackAttempts) :
                 /\ FallbackAttempts[i].idx = i
                 /\ FallbackAttempts[i].ok =>
                      \E j \in 1..Len(pr_review_comments) :
                        pr_review_comments[j] = comments_payload[i]
       /\ ~FallbackRan => FallbackAttempts = <<>>
       /\ HasCall("list_review_comments", TRUE) => Len(CallsOf("post_review")) = 1

C17_Witness ==
  /\ SubmitReturned
  /\ HasCall("delete_review_comment", FALSE)
  /\ HasCall("delete_pending_review", FALSE)
  /\ HasCall("post_review", FALSE)
  /\ Len(FallbackAttempts) = 2
  /\ ~FallbackAttempts[1].ok /\ FallbackAttempts[2].ok

\* ------------------------------------------------------------------- C18
\* C18: when submit_review has returned, whichever path it took (the review
\* posted at once, the fallback with every post succeeding, the fallback with
\* some or all posts failing), the buffer of review comments is empty.
C18_BufferEmptyAfterSubmit ==
  SubmitReturned => review_comments_buffer = <<>>

C18_Witness ==
  /\ SubmitReturned
  /\ review_comments_buffer = <<>>
  /\ Len(comments_payload) = 2
  /\ FallbackRan
  /\ \A i \in 1..Len(FallbackAttempts) : ~FallbackAttempts[i].ok

\* ------------------------------------------------------------------- C19
Updated == fn = "update_description" /\ messages_arg # <<>>

LatestMessage == messages_arg[Len(messages_arg)]

CountOf(t, tok) == Cardinality({i \in 1..Len(t) : t[i] = tok})

HasNoTag(t) == ~Contains(t, DESCRIPTION_START_TAG) /\ ~Contains(t, DESCRIPTION_END_TAG)

OneTaggedRegion ==
  /\ CountOf(description, DESCRIPTION_START_TAG) = 1
  /\ CountOf(description, DESCRIPTION_END_TAG) = 1

RegionContent ==
  get_content_within_tags(description, DESCRIPTION_START_TAG, DESCRIPTION_END_TAG)

\* C19 as stated: after k >= 1 calls of update_description on a description
\* whose author-written text has no release-notes tag, the description holds
\* exactly one tagged region, the region holds the message of the latest
\* call, the author-written text is what get_description gives back, and one
\* more call with the same message leaves the description unchanged.
C19_ReleaseNotesReplaced ==
  Updated =>
    /\ OneTaggedRegion
    /\ RegionContent = Strip(LatestMessage)
    /\ get_description(description) = body_arg
    /\ NewDescription(description, LatestMessage) = description

\* C19 amended: when neither the author-written text nor any message carries
\* a release-notes tag, after k >= 1 calls the description holds exactly one
\* tagged region, at its end, with the latest message in it; the text before
\* the region is the author-written text up to leading and trailing
\* whitespace; and one more call with the same message leaves the
\* description unchanged once the author-written text has no trailing
\* whitespace left (from the second call on, or from the first when it never
\* had any).
C19_ReleaseNotesReplacedUpToWhitespace ==
  (Updated /\ \A i \in 1..Len(messages_arg) : HasNoTag(messages_arg[i])) =>
    /\ OneTaggedRegion
    /\ RegionContent = Strip(LatestMessage)
    /\ AfterFirst(description, DESCRIPTION_END_TAG) = <<>>
    /\ Strip(BeforeFirst(description, DESCRIPTION_START_TAG)) = Strip(body_arg)
    /\ get_description(description) = Strip(body_arg)
    /\ (Len(messages_arg) >= 2 \/ RStrip(body_arg) = body_arg) =>
         NewDescription(description, LatestMessage) = description

C19_Witness ==
  /\ Updated
  /\ Len(messages_arg) = 3
  /\ \A i \in 1..3 : HasNoTag(messages_arg[i])
  /\ messages_arg[2] # messages_arg[3]
  /\ body_arg = <<"w", NL>>
  /\ description = <<"w", NL, NL, DESCRIPTION_START_TAG, NL>> \o LatestMessage
                      \o <<NL, DESCRIPTION_END_TAG>>

\* ------------------------------------------------------------------- C20
HandlerRuns == fn = "handle_review_comment_event"

\* C20: every reply the handler has posted carries the reply tag; an event
\* for a comment whose body carries the review-comment tag or the reply tag
\* led to no LLM call and to no reply; hence every event the handler answered
\* was for a comment that is none of the system's own inline comments or
\* replies.
C20_NoReplyToOwnComments ==
  HandlerRuns =>
    /\ \A i \in 1..Len(pr_review_comments) :
         pr_review_comments[i].via = "reply_review_comment" =>
           Contains(pr_review_comments[i].body, COMMENT_REPLY_TAG)
    /\ \A h \in {x \in handled : x.action = "created"} :
         LET body == pr_review_comments[h.comment].body IN
         /\ (Contains(body, COMMENT_TAG) \/ Contains(body, COMMENT_REPLY_TAG)) =>
              ~h.llm /\ ~h.replied
         /\ (h.llm \/ h.replied) => pr_review_comments[h.comment].via = "user"

\* a reply was posted in a thread that mentions the handler, the event of the
\* reply itself was handled, and so was the event of the inline comment
C20_Witness ==
  /\ HandlerRuns
  /\ \E h \in handled : h.replied
  /\ \E h \in handled :
       /\ h.action = "created" /\ ~h.llm /\ ~h.replied
       /\ pr_review_comments[h.comment].via = "reply_review_comment"
       /\ Contains(pr_review_comments[h.comment].body, MENTION)
  /\ \E h \in handled :
       /\ h.action = "created" /\ ~h.llm
       /\ pr_review_comments[h.comment].via = "submit_review"

\* ------------------------------------------------------------------- C29
\* the file of that path got a per-file summary whose verdict is not APPROVED
SummarisedForReview(path) ==
  \E k \in 1..Len(pipeline_out.summaries) :
    /\ pipeline_out.summaries[k].path = path
    /\ pipeline_out.summaries[k].triage # "APPROVED"

\* C29: with review_simple_changes False, every file handed to the line
\* review got a per-file summary in the same run of review_pr, with a verdict
\* other than APPROVED (so no file of a skip-list extension is line-reviewed).
C29_LineReviewOnlyAfterSummary ==
  (PipelineReturned /\ ~review_simple_changes) =>
    \A i \in 1..Len(pipeline_out.line_reviewed) :
      SummarisedForReview(pipeline_out.line_reviewed[i])

\* ------------------------------------------------------------------- C21
RECURSIVE InThreadAbove(_, _)
\* comment k is comment id or one of the comments id replies to, directly or not
InThreadAbove(k, id) ==
  \/ k = id
  \/ /\ pr_review_comments[id].in_reply_to \in 1..(id - 1)
     /\ InThreadAbove(k, pr_review_comments[id].in_reply_to)

MentionInThread(id) ==
  \E k \in 1..id : InThreadAbove(k, id) /\ Contains(pr_review_comments[k].body, MENTION)

RepliesPosted == {i \in 1..Len(pr_review_comments) :
                    pr_review_comments[i].via = "reply_review_comment"}

\* C21: the handler called the LLM or posted a reply only for a 'created'
\* event whose comment, or a comment above it in its thread, contains the
\* mention; an 'edited' or 'deleted' event, and a 'created' event with no
\* mention in the comment or its chain, led to no LLM call and no reply; and
\* there is at most one reply per event that was answered.
C21_ReplyOnlyWhenCreatedAndMentioned ==
  HandlerRuns =>
    /\ \A h \in handled :
         /\ (h.llm \/ h.replied) => h.action = "created" /\ MentionInThread(h.comment)
         /\ h.action # "created" => ~h.llm /\ ~h.replied
         /\ (h.action = "created" /\ ~MentionInThread(h.comment)) => ~h.llm /\ ~h.replied
    /\ Cardinality(RepliesPosted) = Cardinality({h \in handled : h.replied})

\* a question without the mention, in a thread that holds the mention, was
\* answered; an edit was not
C21_Witness ==
  /\ HandlerRuns
  /\ \E h \in handled :
       /\ h.replied
       /\ ~Contains(pr_review_comments[h.comment].body, MENTION)
  /\ \E h \in handled : h.action = "edited"

\* ------------------------------------------------------------------- C22
ChainReturned == fn = "get_comment_chain" /\ fn_pc = "return"

RECURSIVE ReachesRoot(_, _)
\* following in_reply_to from comment id ends, within n steps, at a comment
\* of the listing that replies to nothing
ReachesRoot(id, n) ==
  /\ id \in 1..Len(pr_review_comments)
  /\ \/ pr_review_comments[id].in_reply_to = 0
     \/ n > 0 /\ ReachesRoot(pr_review_comments[id].in_reply_to, n - 1)

\* the in_reply_to links of the listing form a forest
IsForest ==
  \A i \in 1..Len(pr_review_comments) : ReachesRoot(i, Len(pr_review_comments))

ChainIds == [i \in 1..Len(chain_acc) |-> chain_acc[i].id]

\* C22: for a listing whose in_reply_to links form a forest, the chain that
\* get_comment_chain returns starts at the comment with no parent, ends at
\* the triggering comment, each entry being the comment the next one replies
\* to, with no comment twice, rendered one line per comment; and the
\* top-level comment returned is that first comment.
C22_ChainIsPathFromRoot ==
  (ChainReturned /\ IsForest) =>
    /\ chain_acc # <<>>
    /\ chain_acc[1].in_reply_to = 0
    /\ chain_acc[Len(chain_acc)] = comment_arg
    /\ \A i \in 1..(Len(chain_acc) - 1) : chain_acc[i + 1].in_reply_to = chain_acc[i].id
    /\ NoDup(ChainIds)
    /\ Len(SplitLines(chain_text_out)) = Len(chain_acc)
    /\ top_level_comment = chain_acc[1]

C22_Witness ==
  /\ ChainReturned /\ IsForest
  /\ Len(chain_acc) = 3
  /\ top_level_comment.id # comment_arg.id

\* ------------------------------------------------------------------- C30
\* C30: whatever the in_reply_to links of the listing (a link to a comment
\* that is not listed, links that form a cycle), the walk of
\* get_comment_chain never puts a comment into the chain twice, so it ends
\* after at most one turn per comment.
C30_ChainWalkVisitsEachCommentOnce ==
  fn = "get_comment_chain" => NoDup(ChainIds)

\* ------------------------------------------------------------------- C24
\* the thread whose upsert writes in this step
Writes(w) == cycle[w].pc = "upsert_write" /\ cycle'[w] # cycle[w]

LowestTagged(comments) ==
  CHOOSE i \in 1..Len(comments) :
    /\ Contains(comments[i].body, SUMMARIZE_TAG)
    /\ \A j \in 1..(i - 1) : ~Contains(comments[j].body, SUMMARIZE_TAG)

C25_CommentsAttachedToReviewedCommit ==
  \A w \in Workers :
    cycle[w].pc = "submit_review" => cycle[w].commit_id = cycle[w].result.reviewed_sha

\* ------------------------------------------------------------------- C27
\* post_review returned a result with review comments to publish
EndedWithComments(w) ==
  /\ cycle[w].pc = "done" /\ ~cycle[w].result.skipped /\ github_token
  /\ BufferComments(<<>>, cycle[w].result.review_comments) # <<>>

\* C27: when post_review has returned and the ledger holds the commit it
\* reviewed, the inline comments computed for that commit are on the PR.
C27_LedgerOnlyAfterCommentsPosted ==
  \A w \in Workers :
    (EndedWithComments(w) /\ cycle[w].result.reviewed_sha \in LedgerIds(issue_comments)) =>
      \A i \in 1..Len(cycle[w].result.review_comments) :
        \E j \in 1..Len(pr_review_comments) :
          /\ pr_review_comments[j].author = "bot"
          /\ pr_review_comments[j].path = cycle[w].result.review_comments[i].path

\* ------------------------------------------------------------------- C26
\* thread w compares in this step, for a head that is still the PR's head and
\* that the ledger of the summary comment holds
ComparesPublishedHead(w) ==
  /\ cycle[w].pc = "compare" /\ cycle'[w] # cycle[w]
  /\ cycle[w].head_sha = Head_(commits)
  /\ cycle[w].head_sha \in LedgerIds(issue_comments)

SkipsUnchanged(w, reasons) ==
  /\ cycle'[w].pc = "done"
  /\ cycle'[w].result.skipped
  /\ cycle'[w].result.skip_reason \in reasons
  /\ cycle'[w].llm_calls = 0 /\ cycle'[w].writes = 0
  /\ UNCHANGED <<description, issue_comments, pr_review_comments>>

OwnComments(w) == BufferComments(<<>>, cycle[w].result.review_comments)

Submits(w) == cycle[w].pc = "submit_review" /\ cycle'[w] # cycle[w]

\* C23: the inline comments a review task submits are the comments it buffered
\* from its own result (or none, when the calls fail), and its submit_review
\* leaves in the buffer what another task has buffered and not yet submitted.
C23_TasksShareNoBufferedComments ==
  [][\A w \in Workers :
       Submits(w) =>
         /\ cycle[w].payload = OwnComments(w)
         /\ \E n \in 0..Len(pr_review_comments') :
              SubSeq(pr_review_comments', n + 1, Len(pr_review_comments'))
                \in {<<>>, Posted(OwnComments(w), cycle[w].commit_id)}
         /\ \A v \in Workers \ {w} :
              cycle[v].pc = "submit_review" =>
                \A i \in 1..Len(cycle[v].payload) :
                  InSeq(cycle[v].payload[i], review_comments_buffer')]_vars

\* ------------------------------------------------------------------- C28
StartsBuffering(w) == cycle[w].pc = "buffer_comments" /\ cycle'[w] # cycle[w]

\* C28: when post_review calls, one after another on one service instance,
\* reach the loop that buffers review comments, the buffer is empty, so the
\* payload of submit_review holds the comments of the current result only.
C28_BufferEmptyWhenCycleStartsBuffering ==
  [][\A w \in Workers :
       StartsBuffering(w) =>
         /\ review_comments_buffer = <<>>
         /\ cycle'[w].pc = "submit_review" => cycle'[w].payload = OwnComments(w)]_vars
====
